---- MODULE Spec2Model ----
(***************************************************************************)
(* Model of the wind-profile fusion of open-rocket-wind.                   *)
(*                                                                         *)
(* The forecast held in the Open-Meteo JSON is fused twice in the          *)
(* repository: by getOpenMeteoWindPredictionData (wind.js), which works in *)
(* feet above ground for every hour of the launch window, and by           *)
(* saveORWindCSV (main.js), which works in metres above mean sea level for *)
(* the first hour and writes the fused list to a CSV file.  Both run the   *)
(* same merge of the near-surface altitude winds with the pressure-level   *)
(* winds.                                                                  *)
(*                                                                         *)
(* Seven specifications share the variables:                               *)
(*   Spec        one-hour responses with complete or null levels;          *)
(*   SpecCsv     saveORWindCSV under the CSV options of the page;          *)
(*   SpecIngest  responses with absent, short, empty or null fields and    *)
(*               launch windows of several hours;                          *)
(*   SpecCalls   the exported functions and constructors called directly;  *)
(*   SpecPage    the listeners of the page that enable and disable its two *)
(*               buttons, with the forecast requests in flight;            *)
(*   SpecUnits   the change listener of the standard deviation unit;       *)
(*   SpecLaunch  a LaunchSimulationData and the locations it is built      *)
(*               from.                                                     *)
(*                                                                         *)
(* JavaScript numbers are modelled as exact rationals [n, d] in lowest     *)
(* terms with d > 0; d = 0 stands for the non-finite numbers (n = 0: NaN,  *)
(* n = 1: Infinity, n = -1: -Infinity).                                    *)
(***************************************************************************)
EXTENDS Integers, Sequences, FiniteSets, TLC

VARIABLES
    windJSON,            \* the parsed Open-Meteo response
    hourCount,           \* hours of the launch window (wind.js)
    csvOptions,          \* the values of the CSV option inputs of the page
    pc,                  \* "fetched", "parsed" (wind.js ran), "saved" (main.js ran)
                         \* or "called" (one library function was called)
    altitudeWinds,       \* near-surface winds converted by the handler
    pressureWinds,       \* pressure-level winds converted by the handler
    windList,            \* the fused list
    groundWindSpeed,     \* local of the handler
    groundWindDirection, \* local of the handler
    hourForecast,        \* the WindForecastData pushed for the last hour (wind.js)
    windForecastList,    \* the forecasts pushed, one per hour (wind.js)
    stringArray,         \* the lines of the CSV file (main.js)
    threw,               \* TRUE when the handler was left by an exception
    call,                \* the library call made and what it produced
    launchInputs,        \* contents of the date, time, latitude and longitude inputs
    fetchWindForecastButton, \* the 'Get Wind Forecast' button
    saveCsvFileButton,   \* the 'Save CSV File' button
    statusDisplay,       \* text of the status line, with its parameter if any
    openMeteoWindJSON,   \* main.js's forecast: <<>> is null, <<body>> a response body
    fetches,             \* the requests sent to Open-Meteo and not yet answered
    standardDeviationInput,  \* value and max of the standard deviation input
    currentStandardDeviationUnitIndex, \* unit the value was last converted to
    locations,           \* the GeoLocation objects; an object is its index
    launchPath           \* #launchPath of the LaunchSimulationData

vars == <<windJSON, hourCount, csvOptions, pc, altitudeWinds, pressureWinds,
          windList, groundWindSpeed, groundWindDirection, hourForecast,
          windForecastList, stringArray, threw, call, launchInputs,
          fetchWindForecastButton, saveCsvFileButton, statusDisplay,
          openMeteoWindJSON, fetches, standardDeviationInput,
          currentStandardDeviationUnitIndex, locations, launchPath>>

\* The forecast, the handlers' locals and results, and the library call.
forecastVars ==
    <<windJSON, hourCount, csvOptions, pc, altitudeWinds, pressureWinds,
      windList, groundWindSpeed, groundWindDirection, hourForecast,
      windForecastList, stringArray, threw, call>>

\* The elements and variables of main.js the page's listeners work on.
pageVars ==
    <<launchInputs, fetchWindForecastButton, saveCsvFileButton, statusDisplay,
      openMeteoWindJSON, fetches>>

unitVars == <<standardDeviationInput, currentStandardDeviationUnitIndex>>

launchVars == <<locations, launchPath>>

----------------------------------------------------------------------------
(* Bounds of the model *)

\* Number of pressure levels the modelled response carries.
MaxPressure == 3

\* Hours the arrays of the multi-hour responses hold, and the longest launch
\* window.
MaxHours == 2

\* Geopotential heights (metres above mean sea level) a level may report.
PressureHeights == {-40, 0, 80}

\* <<speed (knots), direction (degrees)>> a pressure level may report.
PressureWindValues == {<<10, 350>>, <<14, 10>>, <<12, 120>>}

\* Ground elevations (metres) of the response; <<>> is a null elevation.
ElevationValues == {<<>>, <<-40>>}

----------------------------------------------------------------------------
(* Program constants *)

openMeteoWindAltitudes == <<10, 80, 120, 180>>

----------------------------------------------------------------------------
(* JavaScript numbers as rationals *)

Abs(x) == IF x < 0 THEN -x ELSE x

Sign(x) == IF x < 0 THEN -1 ELSE IF x > 0 THEN 1 ELSE 0

RECURSIVE GCD(_, _)
GCD(a, b) == IF b = 0 THEN a ELSE GCD(b, a % b)

Norm(n, d) ==
    IF d = 0 THEN [n |-> Sign(n), d |-> 0]
    ELSE LET g == GCD(Abs(n), Abs(d))
             s == Sign(d)
         IN  [n |-> (s * n) \div g, d |-> (s * d) \div g]

Rat(i) == [n |-> i, d |-> 1]

IsFinite(a) == a.d # 0

IsNaN(a) == a.d = 0 /\ a.n = 0

RNeg(a) == [n |-> -a.n, d |-> a.d]

RAbs(a) == [n |-> Abs(a.n), d |-> a.d]

RAdd(a, b) ==
    IF IsFinite(a) /\ IsFinite(b) THEN Norm(a.n * b.d + b.n * a.d, a.d * b.d)
    ELSE IF IsNaN(a) \/ IsNaN(b) THEN [n |-> 0, d |-> 0]
    ELSE IF ~IsFinite(a) /\ ~IsFinite(b) /\ a.n # b.n THEN [n |-> 0, d |-> 0]
    ELSE IF ~IsFinite(a) THEN a ELSE b

RSub(a, b) == RAdd(a, RNeg(b))

RMul(a, b) ==
    IF IsFinite(a) /\ IsFinite(b) THEN Norm(a.n * b.n, a.d * b.d)
    ELSE [n |-> Sign(a.n) * Sign(b.n), d |-> 0]

RDiv(a, b) ==
    IF IsFinite(a) /\ IsFinite(b) THEN Norm(a.n * b.d, a.d * b.n)
    ELSE IF IsFinite(a) /\ ~IsNaN(b) THEN Rat(0)
    ELSE IF ~IsFinite(a) /\ IsFinite(b) /\ ~IsNaN(a)
         THEN [n |-> a.n * (IF b.n < 0 THEN -1 ELSE 1), d |-> 0]
    ELSE [n |-> 0, d |-> 0]

REq(a, b) == ~IsNaN(a) /\ ~IsNaN(b) /\ a = b

RLt(a, b) ==
    /\ ~IsNaN(a)
    /\ ~IsNaN(b)
    /\ IF ~IsFinite(a) /\ ~IsFinite(b) THEN a.n < b.n
       ELSE IF ~IsFinite(a) THEN a.n < 0
       ELSE IF ~IsFinite(b) THEN b.n > 0
       ELSE a.n * b.d < b.n * a.d

RGt(a, b) == RLt(b, a)

RLe(a, b) == RLt(a, b) \/ REq(a, b)

----------------------------------------------------------------------------
(* Strings and their conversion to numbers                                 *)
(* A string is the sequence of its characters.  The inputs of the model    *)
(* hold no exponent and no hexadecimal prefix.                             *)

NaN == [n |-> 0, d |-> 0]

Infinity == [n |-> 1, d |-> 0]

IsDigit(c) == c \in {"0", "1", "2", "3", "4", "5", "6", "7", "8", "9"}

DigitValue(c) ==
    CASE c = "0" -> 0 [] c = "1" -> 1 [] c = "2" -> 2 [] c = "3" -> 3 [] c = "4" -> 4
      [] c = "5" -> 5 [] c = "6" -> 6 [] c = "7" -> 7 [] c = "8" -> 8 [] c = "9" -> 9

\* str.substring(from, to) with 0-based from and exclusive to
Substring(str, from, to) ==
    LET a == IF from > Len(str) THEN Len(str) ELSE from
        b == IF to > Len(str) THEN Len(str) ELSE to
    IN  SubSeq(str, a + 1, b)

\* The first position at or after i that holds no space.
RECURSIVE SkipSpaces(_, _)
SkipSpaces(str, i) ==
    IF i <= Len(str) /\ str[i] = " " THEN SkipSpaces(str, i + 1) ELSE i

\* The first position at or after i that holds no digit.
RECURSIVE DigitsEnd(_, _)
DigitsEnd(str, i) ==
    IF i <= Len(str) /\ IsDigit(str[i]) THEN DigitsEnd(str, i + 1) ELSE i

\* The decimal value of the digits str[i] .. str[j - 1].
RECURSIVE DecimalValue(_, _, _)
DecimalValue(str, i, j) ==
    IF i >= j THEN 0 ELSE DecimalValue(str, i, j - 1) * 10 + DigitValue(str[j - 1])

RECURSIVE PowerOfTen(_)
PowerOfTen(k) == IF k = 0 THEN 1 ELSE 10 * PowerOfTen(k - 1)

\* parseInt(str): leading spaces, a sign, then the longest run of digits.
parseInt(str) ==
    LET i == SkipSpaces(str, 1)
        signed == i <= Len(str) /\ str[i] \in {"+", "-"}
        sign == IF signed /\ str[i] = "-" THEN -1 ELSE 1
        j == IF signed THEN i + 1 ELSE i
        e == DigitsEnd(str, j)
    IN  IF e = j THEN NaN ELSE Rat(sign * DecimalValue(str, j, e))

\* parseFloat(str): leading spaces, a sign, then Infinity or the longest
\* decimal literal.
parseFloat(str) ==
    LET i == SkipSpaces(str, 1)
        signed == i <= Len(str) /\ str[i] \in {"+", "-"}
        sign == IF signed /\ str[i] = "-" THEN -1 ELSE 1
        j == IF signed THEN i + 1 ELSE i
        e == DigitsEnd(str, j)
        dotted == e <= Len(str) /\ str[e] = "."
        f == IF dotted THEN DigitsEnd(str, e + 1) ELSE e
        fractionDigits == IF dotted THEN f - (e + 1) ELSE 0
    IN  IF /\ j + 7 <= Len(str)
           /\ SubSeq(str, j, j + 7) = <<"I", "n", "f", "i", "n", "i", "t", "y">>
        THEN [n |-> sign, d |-> 0]
        ELSE IF (e - j) + fractionDigits = 0 THEN NaN
        ELSE Norm(sign * (DecimalValue(str, j, e) * PowerOfTen(fractionDigits)
                          + (IF dotted THEN DecimalValue(str, e + 1, f) ELSE 0)),
                  PowerOfTen(fractionDigits))

----------------------------------------------------------------------------
(* geo.js *)

metersToFeet(distanceMeters) == RDiv(distanceMeters, Norm(3048, 10000))

----------------------------------------------------------------------------
(* wind.js: WindAtAltitude and WindForecastData *)

\* The constructor throws a TypeError when isNaN holds of a field.
WindAtAltitudeThrows(alt, speed, dir) == IsNaN(alt) \/ IsNaN(speed) \/ IsNaN(dir)

WindAtAltitude(alt, speed, dir) ==
    [altitude |-> alt, windSpeed |-> speed, windDirection |-> dir]

\* new WindForecastData()
WindForecastData ==
    [model |-> "", windData |-> <<>>, groundElevation |-> Rat(0),
     groundWindSpeed |-> Rat(0), groundWindDirection |-> Rat(0)]

\* loadOpenMeteoData with the ground speed and direction stored crosswise.
loadOpenMeteoDataSwapped(elevation, groundSpeed, groundDirection, windArray) ==
    [model |-> "Open-Meteo", windData |-> windArray, groundElevation |-> elevation,
     groundWindSpeed |-> groundDirection, groundWindDirection |-> groundSpeed]

loadOpenMeteoData(elevation, groundSpeed, groundDirection, windArray) ==
    [model |-> "Open-Meteo", windData |-> windArray, groundElevation |-> elevation,
     groundWindSpeed |-> groundSpeed, groundWindDirection |-> groundDirection]
----------------------------------------------------------------------------
(* The fusion shared by getOpenMeteoWindPredictionData and saveORWindCSV   *)
(* Sequences are 1-based: pressureWinds[0] of the source is pw[1] here.    *)

\* The fusion's locals before the merge starts.
FusionStart ==
    [windList |-> <<>>, groundWindSpeed |-> Rat(0), groundWindDirection |-> Rat(0),
     threw |-> FALSE]

\* windList.push(new WindAtAltitude(0, speed, dir)) with the ground values set.
PushGround(f, speed, dir) ==
    IF WindAtAltitudeThrows(Rat(0), speed, dir)
    THEN [f EXCEPT !.groundWindSpeed = speed, !.groundWindDirection = dir,
                   !.threw = TRUE]
    ELSE [f EXCEPT !.groundWindSpeed = speed, !.groundWindDirection = dir,
                   !.windList = Append(@, WindAtAltitude(Rat(0), speed, dir))]

\* AltitudeLoop with "<=" in place of "<": an altitude wind level with the
\* lowest pressure wind is taken too.
RECURSIVE AltitudeLoopInclusive(_, _, _, _)
AltitudeLoopInclusive(aw, pw, k, f) ==
    IF k > Len(aw) THEN f
    ELSE IF RLe(aw[k].altitude, pw[1].altitude)
         THEN LET g == IF Len(f.windList) = 0
                       THEN PushGround(f, aw[k].windSpeed, aw[k].windDirection)
                       ELSE f
              IN  AltitudeLoopInclusive(aw, pw, k + 1,
                                        [g EXCEPT !.windList = Append(@, aw[k])])
         ELSE f

\* for (const altWind of altitudeWinds): take the altitude winds below the
\* lowest pressure wind, stop at the first one that is not below it.
RECURSIVE AltitudeLoop(_, _, _, _)
AltitudeLoop(aw, pw, k, f) ==
    IF k > Len(aw) THEN f
    ELSE IF RLt(aw[k].altitude, pw[1].altitude)
         THEN LET g == IF Len(f.windList) = 0
                       THEN PushGround(f, aw[k].windSpeed, aw[k].windDirection)
                       ELSE f
              IN  AltitudeLoop(aw, pw, k + 1,
                               [g EXCEPT !.windList = Append(@, aw[k])])
         ELSE f

\* PressureLoop without the "0 == windList.length" test: the first pressure
\* wind always sets the ground values and adds a ground entry.
RECURSIVE PressureLoopAlwaysGround(_, _, _)
PressureLoopAlwaysGround(pw, k, f) ==
    IF k > Len(pw) THEN f
    ELSE LET g == IF k = 1
                  THEN PushGround(f, pw[k].windSpeed, pw[k].windDirection)
                  ELSE f
         IN  PressureLoopAlwaysGround(pw, k + 1,
                                      [g EXCEPT !.windList = Append(@, pw[k])])

\* for (const presWind of pressureWinds): add every pressure wind, with a
\* ground entry first when no altitude wind was used.
RECURSIVE PressureLoop(_, _, _)
PressureLoop(pw, k, f) ==
    IF k > Len(pw) THEN f
    ELSE LET g == IF Len(f.windList) = 0
                  THEN PushGround(f, pw[k].windSpeed, pw[k].windDirection)
                  ELSE f
         IN  PressureLoop(pw, k + 1, [g EXCEPT !.windList = Append(@, pw[k])])

\* FirstAboveGround with ">= 0" in place of "> 0".
RECURSIVE FirstAtOrAboveGround(_, _)
FirstAtOrAboveGround(pw, k) ==
    IF k > Len(pw) THEN k
    ELSE IF RLe(Rat(0), pw[k].altitude) THEN k
    ELSE FirstAtOrAboveGround(pw, k + 1)

\* The scan "for (; windIndex < pressureWinds.length; ++windIndex)" from
\* windIndex = 1: the position of the first entry above ground, Len(pw) + 1
\* when the scan runs off the end.
RECURSIVE FirstAboveGround(_, _)
FirstAboveGround(pw, k) ==
    IF k > Len(pw) THEN k
    ELSE IF RGt(pw[k].altitude, Rat(0)) THEN k
    ELSE FirstAboveGround(pw, k + 1)

\* const groundAltitudeRatio = Math.abs(prev.altitude) / (cur.altitude - prev.altitude)
GroundAltitudeDivisor(prev, cur) == RSub(cur.altitude, prev.altitude)

GroundAltitudeRatio(prev, cur) ==
    RDiv(RAbs(prev.altitude), GroundAltitudeDivisor(prev, cur))

\* InterpolateGroundSpeed with the two base speeds exchanged: the delta is
\* added to the larger speed.
InterpolateGroundSpeedFromMax(ratio, prev, cur) ==
    LET speedDelta == RAbs(RSub(cur.windSpeed, prev.windSpeed))
    IN  IF REq(Rat(0), speedDelta) THEN cur.windSpeed
        ELSE IF RLt(cur.windSpeed, prev.windSpeed)
             THEN RAdd(RMul(ratio, speedDelta), prev.windSpeed)
             ELSE RAdd(RMul(ratio, speedDelta), cur.windSpeed)

\* Interpolate wind speed at zero altitude.
InterpolateGroundSpeed(ratio, prev, cur) ==
    LET speedDelta == RAbs(RSub(cur.windSpeed, prev.windSpeed))
    IN  IF REq(Rat(0), speedDelta) THEN cur.windSpeed
        ELSE IF RLt(cur.windSpeed, prev.windSpeed)
             THEN RAdd(RMul(ratio, speedDelta), cur.windSpeed)
             ELSE RAdd(RMul(ratio, speedDelta), prev.windSpeed)

\* InterpolateGroundDirection without the "+ 180.0" that restores the
\* shifted directions.
InterpolateGroundDirectionUnrestored(ratio, prev, cur) ==
    LET directionDelta == RAbs(RSub(cur.windDirection, prev.windDirection))
    IN  IF REq(Rat(0), directionDelta) THEN cur.windDirection
        ELSE IF RLt(directionDelta, Rat(180))
             THEN RAdd(IF RLt(cur.windDirection, prev.windDirection)
                       THEN cur.windDirection ELSE prev.windDirection,
                       RMul(ratio, directionDelta))
        ELSE LET firstDirection == RSub(prev.windDirection, Rat(180))
                 secondDirection == RSub(cur.windDirection, Rat(180))
                 shiftedDelta == RAbs(RSub(firstDirection, secondDirection))
             IN  RAdd(IF RLt(firstDirection, secondDirection)
                      THEN firstDirection ELSE secondDirection,
                      RMul(ratio, shiftedDelta))

\* Interpolate wind direction at zero altitude.
InterpolateGroundDirection(ratio, prev, cur) ==
    LET directionDelta == RAbs(RSub(cur.windDirection, prev.windDirection))
    IN  IF REq(Rat(0), directionDelta) THEN cur.windDirection
        ELSE IF RLt(directionDelta, Rat(180))
             THEN RAdd(IF RLt(cur.windDirection, prev.windDirection)
                       THEN cur.windDirection ELSE prev.windDirection,
                       RMul(ratio, directionDelta))
        ELSE LET firstDirection == RSub(prev.windDirection, Rat(180))
                 secondDirection == RSub(cur.windDirection, Rat(180))
                 shiftedDelta == RAbs(RSub(firstDirection, secondDirection))
             IN  RAdd(IF RLt(firstDirection, secondDirection)
                      THEN firstDirection ELSE secondDirection,
                      RAdd(RMul(ratio, shiftedDelta), Rat(180)))

\* FuseBelowGround that keeps the bracketing entry below ground: the rest of
\* the list is added from windIndex - 1.
FuseBelowGroundKeepsBracket(pw, f) ==
    LET windIndex == FirstAboveGround(pw, 2)
    IN  IF windIndex > Len(pw) THEN f
        ELSE LET prev == pw[windIndex - 1]
                 cur == pw[windIndex]
                 ratio == GroundAltitudeRatio(prev, cur)
                 g == PushGround(f, InterpolateGroundSpeed(ratio, prev, cur),
                                 InterpolateGroundDirection(ratio, prev, cur))
             IN  IF g.threw THEN g
                 ELSE [g EXCEPT !.windList =
                          @ \o SubSeq(pw, windIndex - 1, Len(pw))]

\* The else branch: the lowest pressure wind is at or below ground.
FuseBelowGround(pw, f) ==
    LET windIndex == FirstAboveGround(pw, 2)
    IN  IF windIndex > Len(pw) THEN f
        ELSE LET prev == pw[windIndex - 1]
                 cur == pw[windIndex]
                 ratio == GroundAltitudeRatio(prev, cur)
                 g == PushGround(f, InterpolateGroundSpeed(ratio, prev, cur),
                                 InterpolateGroundDirection(ratio, prev, cur))
             IN  IF g.threw THEN g
                 ELSE [g EXCEPT !.windList =
                          @ \o SubSeq(pw, windIndex, Len(pw))]

\* The then branch: the lowest pressure wind is above ground.
FuseAboveGround(aw, pw, f) == PressureLoop(pw, 1, AltitudeLoop(aw, pw, 1, f))

\* Fuse without the "pressureWinds.length > 0" guard: with no pressure wind
\* the altitude winds alone make the list.
FuseWithoutPressureGuard(aw, pw) ==
    IF Len(pw) > 0
    THEN IF RGt(pw[1].altitude, Rat(0))
         THEN FuseAboveGround(aw, pw, FusionStart)
         ELSE FuseBelowGround(pw, FusionStart)
    ELSE IF Len(aw) > 0
         THEN LET g == PushGround(FusionStart, aw[1].windSpeed, aw[1].windDirection)
              IN  [g EXCEPT !.windList = @ \o aw]
         ELSE FusionStart

\* Combine altitude and pressure based winds into a single, ascending list.
Fuse(aw, pw) ==
    IF Len(pw) > 0
    THEN IF RGt(pw[1].altitude, Rat(0))
         THEN FuseAboveGround(aw, pw, FusionStart)
         ELSE FuseBelowGround(pw, FusionStart)
    ELSE FusionStart

----------------------------------------------------------------------------
(* wind.js: WindForecastData.loadWindsAloftData *)
(* An optional field of the response is <<>> when absent, <<value>> when   *)
(* present; speeds and directions are functions from altitude to text.     *)

\* Array.from(new Set(array)).sort(...): the distinct elements, ascending.
RECURSIVE SortedDistinct(_)
SortedDistinct(set) ==
    IF set = {} THEN <<>>
    ELSE LET least == CHOOSE x \in set : \A y \in set : x <= y
         IN  <<least>> \o SortedDistinct(set \ {least})

\* for (const currentAlt of altitudes): push a WindAtAltitude for each
\* altitude that has a speed and a direction; the constructor throws on NaN.
RECURSIVE AloftLoop(_, _, _, _, _)
AloftLoop(altitudes, windSpeeds, windDirections, k, windData) ==
    IF k > Len(altitudes) THEN [windData |-> windData, threw |-> FALSE]
    ELSE LET currentAlt == altitudes[k]
         IN  IF currentAlt \in DOMAIN windSpeeds /\ currentAlt \in DOMAIN windDirections
             THEN IF WindAtAltitudeThrows(Rat(currentAlt), parseInt(windSpeeds[currentAlt]),
                                          parseInt(windDirections[currentAlt]))
                  THEN [windData |-> windData, threw |-> TRUE]
                  ELSE AloftLoop(altitudes, windSpeeds, windDirections, k + 1,
                                 Append(windData,
                                        WindAtAltitude(Rat(currentAlt),
                                                       parseInt(windSpeeds[currentAlt]),
                                                       parseInt(windDirections[currentAlt]))))
             ELSE AloftLoop(altitudes, windSpeeds, windDirections, k + 1, windData)

Elements(array) == {array[i] : i \in 1..Len(array)}

\* forecast is the object after the call, also when the call threw.
loadWindsAloftData(forecast, json) ==
    LET rap == "RAP" = json.model
        altitudes == SortedDistinct(Elements(IF rap THEN json.altFtRaw ELSE json.altFt))
        windSpeeds == IF rap THEN json.speedRaw ELSE json.speed
        windDirections == IF rap THEN json.directionRaw ELSE json.direction
        loop == AloftLoop(altitudes, windSpeeds, windDirections, 1, forecast.windData)
        loaded == [forecast EXCEPT !.model = json.model, !.windData = loop.windData]
    IN  IF loop.threw THEN [threw |-> TRUE, forecast |-> loaded]
        ELSE [threw |-> FALSE,
              forecast |->
                  [loaded EXCEPT
                      !.groundElevation =
                          IF json.groundElev # <<>> THEN json.groundElev[1] ELSE @,
                      !.groundWindSpeed =
                          IF json.groundSpd # <<>> THEN json.groundSpd[1] ELSE @,
                      !.groundWindDirection =
                          IF json.groundSpd # <<>> THEN json.groundSpd[1] ELSE @]]

----------------------------------------------------------------------------
(* Reading the Open-Meteo response *)

\* A field of hourly is <<>> when hourly has no such name and <<array>>
\* otherwise; a cell of an array is <<>> for null and <<number>> otherwise.
\* The elevation is <<>> when missing or null.
GroundElevationOf(json) == IF json.elevation = <<>> THEN 0 ELSE json.elevation[1]

\* wind.js: altitudeWinds.push(new WindAtAltitude(metersToFeet(altitude), ...))
RECURSIVE WindJsAltitudeWinds(_, _, _)
WindJsAltitudeWinds(json, hourIndex, k) ==
    IF k > Len(openMeteoWindAltitudes) THEN <<>>
    ELSE LET level == json.altitude[k] IN
         (IF ~(level.speed # <<>> /\ level.direction # <<>>) THEN <<>>
          ELSE IF hourIndex >= Len(level.speed[1]) THEN <<>>
          ELSE IF hourIndex >= Len(level.direction[1]) THEN <<>>
          ELSE IF \/ level.speed[1][hourIndex + 1] = <<>>
                  \/ level.direction[1][hourIndex + 1] = <<>> THEN <<>>
          ELSE <<WindAtAltitude(metersToFeet(Rat(openMeteoWindAltitudes[k])),
                                Rat(level.speed[1][hourIndex + 1][1]),
                                Rat(level.direction[1][hourIndex + 1][1]))>>)
         \o WindJsAltitudeWinds(json, hourIndex, k + 1)

\* wind.js: const altitude = windHeight - groundElevation;
\*          pressureWinds.push(new WindAtAltitude(metersToFeet(altitude), ...))
RECURSIVE WindJsPressureWinds(_, _, _)
WindJsPressureWinds(json, hourIndex, k) ==
    IF k > Len(json.pressure) THEN <<>>
    ELSE LET level == json.pressure[k] IN
         (IF ~(level.speed # <<>> /\ level.direction # <<>> /\ level.height # <<>>)
          THEN <<>>
          ELSE IF hourIndex >= Len(level.speed[1]) THEN <<>>
          ELSE IF hourIndex >= Len(level.direction[1]) THEN <<>>
          ELSE IF hourIndex >= Len(level.height[1]) THEN <<>>
          ELSE IF \/ level.speed[1][hourIndex + 1] = <<>>
                  \/ level.direction[1][hourIndex + 1] = <<>>
                  \/ level.height[1][hourIndex + 1] = <<>> THEN <<>>
          ELSE <<WindAtAltitude(
                    metersToFeet(Rat(level.height[1][hourIndex + 1][1]
                                     - GroundElevationOf(json))),
                    Rat(level.speed[1][hourIndex + 1][1]),
                    Rat(level.direction[1][hourIndex + 1][1]))>>)
         \o WindJsPressureWinds(json, hourIndex, k + 1)

\* main.js: altitudeWinds.push(new WindAtAltitude(altitude + groundElevation, ...))
\* The messages logged for an empty array name hourIndex, which main.js does
\* not declare: evaluating them throws a ReferenceError that leaves the handler
\* (main.js is loaded as a module, and the handler has no try around the loop).
RECURSIVE MainJsAltitudeWinds(_, _)
MainJsAltitudeWinds(json, k) ==
    IF k > Len(openMeteoWindAltitudes) THEN [winds |-> <<>>, threw |-> FALSE]
    ELSE LET level == json.altitude[k] IN
         IF ~(level.speed # <<>> /\ level.direction # <<>>)
         THEN MainJsAltitudeWinds(json, k + 1)
         ELSE IF Len(level.speed[1]) < 1 THEN [winds |-> <<>>, threw |-> TRUE]
         ELSE IF Len(level.direction[1]) < 1 THEN [winds |-> <<>>, threw |-> TRUE]
         ELSE IF level.speed[1][1] = <<>> \/ level.direction[1][1] = <<>>
         THEN MainJsAltitudeWinds(json, k + 1)
         ELSE LET rest == MainJsAltitudeWinds(json, k + 1) IN
              [winds |-> <<WindAtAltitude(
                              Rat(openMeteoWindAltitudes[k] + GroundElevationOf(json)),
                              Rat(level.speed[1][1][1]),
                              Rat(level.direction[1][1][1]))>> \o rest.winds,
               threw |-> rest.threw]

\* main.js: pressureWinds.push(new WindAtAltitude(windHeight, ...))
RECURSIVE MainJsPressureWinds(_, _)
MainJsPressureWinds(json, k) ==
    IF k > Len(json.pressure) THEN <<>>
    ELSE LET level == json.pressure[k] IN
         (IF ~(level.speed # <<>> /\ level.direction # <<>> /\ level.height # <<>>)
          THEN <<>>
          ELSE IF Len(level.speed[1]) < 1 THEN <<>>
          ELSE IF Len(level.direction[1]) < 1 THEN <<>>
          ELSE IF Len(level.height[1]) < 1 THEN <<>>
          ELSE IF \/ level.speed[1][1] = <<>>
                  \/ level.direction[1][1] = <<>>
                  \/ level.height[1][1] = <<>> THEN <<>>
          ELSE <<WindAtAltitude(Rat(level.height[1][1][1]),
                                Rat(level.speed[1][1][1]),
                                Rat(level.direction[1][1][1]))>>)
         \o MainJsPressureWinds(json, k + 1)

\* wind.js: one pass of the loop over the hours.
WindJsHour(json, hourIndex) ==
    LET aw == WindJsAltitudeWinds(json, hourIndex, 1)
        pw == WindJsPressureWinds(json, hourIndex, 1)
        f  == Fuse(aw, pw)
    IN  [altitudeWinds |-> aw, pressureWinds |-> pw, fused |-> f,
         hourForecast |->
            IF Len(pw) > 0 /\ ~f.threw
            THEN loadOpenMeteoData(Rat(GroundElevationOf(json)), f.groundWindSpeed,
                                   f.groundWindDirection, f.windList)
            ELSE WindForecastData]

\* wind.js: for (let hourIndex = 0; hourIndex < hourCount; ++hourIndex) { ...
\*          windForecastList.push(hourForecast); }
\* An exception leaves the loop for the catch of the function.
RECURSIVE WindJsHours(_, _, _)
WindJsHours(json, hourIndex, count) ==
    IF hourIndex >= count THEN <<>>
    ELSE \* the hour's record is bound once
         LET h == WindJsHour(json, hourIndex) IN
         IF h.fused.threw THEN <<h>>
         ELSE <<h>> \o WindJsHours(json, hourIndex + 1, count)

----------------------------------------------------------------------------
(* main.js: the CSV options and the lines of the file                      *)
(* An option is <<>> when the page has no such element and <<value>>       *)
(* otherwise.  A line of the file is kept as its fields and its separator: *)
(* the names of the header, the numbers of a data row before JavaScript    *)
(* renders them.                                                           *)

csvFieldSeparators == <<",", ";", " ", "\t">>

\* let fieldSeparator = ','; ... csvFieldSeparators[fieldSeparatorIndex]
FieldSeparatorOf(element) ==
    IF element = <<>> THEN ","
    ELSE LET fieldSeparatorIndex == parseInt(element[1])
         IN  IF /\ ~IsNaN(fieldSeparatorIndex)
                /\ RLe(Rat(0), fieldSeparatorIndex)
                /\ RLt(fieldSeparatorIndex, Rat(Len(csvFieldSeparators)))
             THEN csvFieldSeparators[fieldSeparatorIndex.n + 1]
             ELSE ","

\* let altitudeName = 'altitude'; if (input.value.length > 0) altitudeName = input.value;
ColumnNameOf(defaultName, element) ==
    IF element # <<>> /\ Len(element[1]) > 0 THEN element[1] ELSE defaultName

getCsvOptionValue(defaultValue, element, minValue, maxValue) ==
    IF element = <<>> THEN defaultValue
    ELSE LET csvOptionValue == parseInt(element[1])
         IN  IF IsNaN(csvOptionValue) THEN 0
             ELSE IF csvOptionValue.n < minValue \/ csvOptionValue.n > maxValue THEN 0
             ELSE csvOptionValue.n

\* The largest deviation of a unit: the switch on standardDeviationUnitIndex.
DeviationMaximum(standardDeviationUnitIndex) ==
    CASE standardDeviationUnitIndex = 1 -> Norm(72, 10)
      [] standardDeviationUnitIndex = 2 -> Norm(656, 100)
      [] standardDeviationUnitIndex = 3 -> Norm(447, 100)
      [] standardDeviationUnitIndex = 4 -> Norm(389, 100)
      [] OTHER -> Rat(2)

\* The standard deviation that takes a negative input as it is.
StandardDeviationOfSigned(element, standardDeviationUnitIndex) ==
    IF element = <<>> THEN Norm(2, 10)
    ELSE LET standardDeviation == parseFloat(element[1])
         IN  IF IsNaN(standardDeviation) THEN Norm(2, 10)
             ELSE IF RGt(standardDeviation, DeviationMaximum(standardDeviationUnitIndex))
             THEN DeviationMaximum(standardDeviationUnitIndex)
             ELSE standardDeviation

StandardDeviationOf(element, standardDeviationUnitIndex) ==
    IF element = <<>> THEN Norm(2, 10)
    ELSE LET standardDeviation == parseFloat(element[1])
         IN  IF IsNaN(standardDeviation) THEN Norm(2, 10)
             ELSE IF RLt(standardDeviation, Rat(0)) THEN Norm(2, 10)
             ELSE IF RGt(standardDeviation, DeviationMaximum(standardDeviationUnitIndex))
             THEN DeviationMaximum(standardDeviationUnitIndex)
             ELSE standardDeviation

\* The options as saveORWindCSV reads them.
ReadCsvOptions(options) ==
    [fieldSeparator |-> FieldSeparatorOf(options.fieldSeparator),
     altitudeName |-> ColumnNameOf("altitude", options.altitudeName),
     windSpeedName |-> ColumnNameOf("speed", options.speedName),
     windDirectionName |-> ColumnNameOf("direction", options.directionName),
     standardDeviationName |-> ColumnNameOf("stddev", options.deviationName),
     altitudeUnitIndex |-> getCsvOptionValue(0, options.altitudeUnit, 0, 5),
     altitudeReferenceIndex |-> getCsvOptionValue(0, options.altitudeReference, 0, 1),
     windSpeedUnitIndex |-> getCsvOptionValue(0, options.speedUnit, 0, 4),
     windDirectionUnitIndex |-> getCsvOptionValue(0, options.directionUnit, 0, 2),
     standardDeviation |->
         StandardDeviationOf(options.deviationValue,
                             getCsvOptionValue(0, options.deviationUnit, 0, 4))]

HeaderLine(o) ==
    [fields |-> <<o.altitudeName, o.windSpeedName, o.windDirectionName,
                  o.standardDeviationName>>,
     separator |-> o.fieldSeparator]

\* Math.PI, shortened to a fraction the integers of the model can hold.
MathPI == Norm(355, 113)

ConvertAltitude(windAltitude, altitudeUnitIndex) ==
    CASE altitudeUnitIndex = 1 -> RDiv(windAltitude, Rat(1000))
      [] altitudeUnitIndex = 2 -> RMul(windAltitude, Norm(3281, 1000))
      [] altitudeUnitIndex = 3 -> RMul(windAltitude, Norm(1094, 1000))
      [] altitudeUnitIndex = 4 -> RDiv(windAltitude, Rat(1609))
      [] altitudeUnitIndex = 5 -> RDiv(windAltitude, Rat(1852))
      [] OTHER -> windAltitude

ConvertSpeed(windSpeed, windSpeedUnitIndex) ==
    CASE windSpeedUnitIndex = 1 -> RDiv(windSpeed, Rat(1000))
      [] windSpeedUnitIndex = 2 -> RMul(windSpeed, Norm(3281, 1000))
      [] windSpeedUnitIndex = 3 -> RMul(windSpeed, Norm(2237, 1000))
      [] windSpeedUnitIndex = 4 -> RMul(windSpeed, Norm(1944, 1000))
      [] OTHER -> windSpeed

ConvertDirection(windDirection, windDirectionUnitIndex) ==
    CASE windDirectionUnitIndex = 1 -> RMul(windDirection, RDiv(MathPI, Rat(180)))
      [] windDirectionUnitIndex = 2 -> RMul(windDirection, Rat(60))
      [] OTHER -> windDirection

DataLine(windAltitude, windSpeed, windDirection, o) ==
    [fields |-> <<ConvertAltitude(windAltitude, o.altitudeUnitIndex),
                  ConvertSpeed(windSpeed, o.windSpeedUnitIndex),
                  ConvertDirection(windDirection, o.windDirectionUnitIndex),
                  o.standardDeviation>>,
     separator |-> o.fieldSeparator]

\* The row interpolated at ground level that keeps the altitude below ground.
GroundLevelLineSunken(cur, next, groundElevation, o) ==
    LET windAltitude == RSub(cur.altitude, groundElevation)
        nextAltitude == RSub(next.altitude, groundElevation)
        bandRatio == RAbs(RDiv(windAltitude, RSub(nextAltitude, windAltitude)))
        windSpeed == RAdd(cur.windSpeed, RMul(bandRatio, RSub(next.windSpeed, cur.windSpeed)))
        directionA == cur.windDirection
        directionB == next.windDirection
        targetDirection == RAdd(directionA, RMul(bandRatio, RSub(directionB, directionA)))
        averageDirection == RAdd(directionA, targetDirection)
        northerly == RDiv(RSub(averageDirection, Rat(360)), Rat(2))
        windDirection ==
            IF RLt(RAbs(RSub(directionA, targetDirection)), Rat(180))
            THEN RDiv(averageDirection, Rat(2))
            ELSE IF RLt(northerly, Rat(0)) THEN RAdd(northerly, Rat(360)) ELSE northerly
    IN  DataLine(windAltitude, windSpeed, windDirection, o)

\* The row written for a sample below ground whose successor is not:
\* speed and direction interpolated at ground level, altitude reset to 0.
GroundLevelLine(cur, next, groundElevation, o) ==
    LET windAltitude == RSub(cur.altitude, groundElevation)
        nextAltitude == RSub(next.altitude, groundElevation)
        bandRatio == RAbs(RDiv(windAltitude, RSub(nextAltitude, windAltitude)))
        windSpeed == RAdd(cur.windSpeed, RMul(bandRatio, RSub(next.windSpeed, cur.windSpeed)))
        directionA == cur.windDirection
        directionB == next.windDirection
        targetDirection == RAdd(directionA, RMul(bandRatio, RSub(directionB, directionA)))
        averageDirection == RAdd(directionA, targetDirection)
        northerly == RDiv(RSub(averageDirection, Rat(360)), Rat(2))
        windDirection ==
            IF RLt(RAbs(RSub(directionA, targetDirection)), Rat(180))
            THEN RDiv(averageDirection, Rat(2))
            ELSE IF RLt(northerly, Rat(0)) THEN RAdd(northerly, Rat(360)) ELSE northerly
    IN  DataLine(Rat(0), windSpeed, windDirection, o)

\* The loop over the fused list that starts at its second sample.
RECURSIVE DataLinesFromSecond(_, _, _, _)
DataLinesFromSecond(list, altitudeIndex, groundElevation, o) ==
    IF altitudeIndex + 1 >= Len(list) THEN <<>>
    ELSE <<DataLine(list[altitudeIndex + 2].altitude, list[altitudeIndex + 2].windSpeed,
                    list[altitudeIndex + 2].windDirection, o)>>
         \o DataLinesFromSecond(list, altitudeIndex + 1, groundElevation, o)

\* for (let altitudeIndex = 0; altitudeIndex < windList.length; ++altitudeIndex)
\* altitudeIndex is the 0-based index of the source.
RECURSIVE DataLines(_, _, _, _)
DataLines(list, altitudeIndex, groundElevation, o) ==
    IF altitudeIndex >= Len(list) THEN <<>>
    ELSE LET cur == list[altitudeIndex + 1]
             rest == DataLines(list, altitudeIndex + 1, groundElevation, o)
         IN  IF 1 = o.altitudeReferenceIndex
             THEN IF RLt(RSub(cur.altitude, groundElevation), Rat(0))
                  THEN IF (altitudeIndex + 1) >= Len(list) THEN <<>>
                       ELSE IF RLt(RSub(list[altitudeIndex + 2].altitude, groundElevation),
                                   Rat(0))
                       THEN rest
                       ELSE <<GroundLevelLine(cur, list[altitudeIndex + 2],
                                              groundElevation, o)>> \o rest
                  ELSE <<DataLine(RSub(cur.altitude, groundElevation), cur.windSpeed,
                                  cur.windDirection, o)>> \o rest
             ELSE <<DataLine(cur.altitude, cur.windSpeed, cur.windDirection, o)>> \o rest

\* The lines pushed to stringArray.
CsvLines(list, groundElevation, options) ==
    LET o == ReadCsvOptions(options)
    IN  <<HeaderLine(o)>> \o DataLines(list, 0, groundElevation, o)

----------------------------------------------------------------------------
(* The responses the model considers *)

\* The near-surface wind reported at the k-th fixed height, when present.
AltitudeEntry(k) == [speed |-> 6 + k, direction |-> 70 + 10 * k]

\* An array of count cells, all holding cell.
Repeated(cell, count) == [i \in 1..count |-> cell]

\* The fields of a near-surface height whose arrays hold the same cell
\* (<<>> or <<entry>>) at every hour.
AltitudeLevel(entry, count) ==
    IF entry = <<>>
    THEN [speed |-> <<Repeated(<<>>, count)>>, direction |-> <<Repeated(<<>>, count)>>]
    ELSE [speed |-> <<Repeated(<<entry[1].speed>>, count)>>,
          direction |-> <<Repeated(<<entry[1].direction>>, count)>>]

PressureLevel(entry, count) ==
    IF entry = <<>>
    THEN [speed |-> <<Repeated(<<>>, count)>>, direction |-> <<Repeated(<<>>, count)>>,
          height |-> <<Repeated(<<>>, count)>>]
    ELSE [speed |-> <<Repeated(<<entry[1].speed>>, count)>>,
          direction |-> <<Repeated(<<entry[1].direction>>, count)>>,
          height |-> <<Repeated(<<entry[1].height>>, count)>>]

\* One-hour responses: every subset of the fixed heights reports a wind.
AltitudeInputs ==
    {[k \in 1..Len(openMeteoWindAltitudes) |->
         AltitudeLevel(IF k \in S THEN <<AltitudeEntry(k)>> ELSE <<>>, 1)] :
       S \in SUBSET (1..Len(openMeteoWindAltitudes))}

PressureEntries ==
    {[height |-> h, speed |-> w[1], direction |-> w[2]] :
        h \in PressureHeights, w \in PressureWindValues}

\* Geopotential height grows as pressure falls: the levels that are present
\* come in ascending height (equal heights allowed).
PressureChoices ==
    {p \in [1..MaxPressure -> {<<>>} \cup {<<e>> : e \in PressureEntries}] :
        \A i, j \in 1..MaxPressure :
            (i < j /\ p[i] # <<>> /\ p[j] # <<>>) => p[i][1].height <= p[j][1].height}

PressureInputs ==
    {[k \in 1..MaxPressure |-> PressureLevel(p[k], 1)] : p \in PressureChoices}

\* The option inputs as the page loads them.
DefaultCsvOptions ==
    [fieldSeparator |-> <<<<"0">>>>, altitudeName |-> <<"altitude">>,
     speedName |-> <<"speed">>, directionName |-> <<"direction">>,
     deviationName |-> <<"stddev">>, altitudeUnit |-> <<<<"0">>>>,
     altitudeReference |-> <<<<"0">>>>, speedUnit |-> <<<<"0">>>>,
     directionUnit |-> <<<<"0">>>>, deviationUnit |-> <<<<"0">>>>,
     deviationValue |-> <<<<"0", ".", "2">>>>]

NoCall == [op |-> "none"]

----------------------------------------------------------------------------
(* The page as window.onload leaves it *)

\* The clock, read by "new Date()": an instant on the hour.  The launch
\* dates the model enters lie in the month of rightNow.
rightNow == [year |-> 2026, month |-> 1, day |-> 15, hour |-> 12]

\* The date and time inputs hold today and the current hour, the
\* coordinate inputs are empty.
LoadedLaunchInputs ==
    [launchDate |-> <<"2", "0", "2", "6", "-", "0", "1", "-", "1", "5">>,
     launchTime |-> <<"1", "2", ":", "0", "0">>,
     latitude |-> <<>>,
     longitude |-> <<>>]

\* <input type="number" id="deviation-value" max="2.0" value="0.2"/>; value
\* is the number the input's text reads as.
LoadedStandardDeviationInput ==
    [value |-> parseFloat(<<"0", ".", "2">>), max |-> parseFloat(<<"2", ".", "0">>)]

----------------------------------------------------------------------------
(* Specification *)

\* The state before a handler runs on forecast json with the options given.
Start(json, hours, options) ==
    /\ windJSON = json
    /\ hourCount = hours
    /\ csvOptions = options
    /\ pc = "fetched"
    /\ altitudeWinds = <<>>
    /\ pressureWinds = <<>>
    /\ windList = <<>>
    /\ groundWindSpeed = Rat(0)
    /\ groundWindDirection = Rat(0)
    /\ hourForecast = WindForecastData
    /\ windForecastList = <<>>
    /\ stringArray = <<>>
    /\ threw = FALSE
    /\ call = NoCall
    /\ launchInputs = LoadedLaunchInputs
    /\ fetchWindForecastButton = [disabled |-> FALSE]
    /\ saveCsvFileButton = [disabled |-> TRUE]
    /\ statusDisplay = <<"Please refresh the wind forecast when you are ready.">>
    /\ openMeteoWindJSON = <<>>
    /\ fetches = {}
    /\ standardDeviationInput = LoadedStandardDeviationInput
    /\ currentStandardDeviationUnitIndex = 0
    /\ locations = <<>>
    /\ launchPath = <<>>

Init ==
    \E json \in [elevation : ElevationValues, altitude : AltitudeInputs,
                 pressure : PressureInputs] :
        Start(json, 1, DefaultCsvOptions)

\* wind.js getOpenMeteoWindPredictionData from the parsed response on.
GetOpenMeteoWindPredictionData ==
    /\ pc = "fetched"
    /\ \E hours \in {WindJsHours(windJSON, 0, hourCount)} :
         \E h \in {hours[Len(hours)]} :
           /\ altitudeWinds' = h.altitudeWinds
           /\ pressureWinds' = h.pressureWinds
           /\ windList' = h.fused.windList
           /\ groundWindSpeed' = h.fused.groundWindSpeed
           /\ groundWindDirection' = h.fused.groundWindDirection
           /\ threw' = h.fused.threw
           /\ hourForecast' = h.hourForecast
           /\ windForecastList' =
                 [i \in 1..(IF h.fused.threw THEN Len(hours) - 1 ELSE Len(hours)) |->
                     hours[i].hourForecast]
    /\ pc' = "parsed"
    /\ UNCHANGED <<windJSON, hourCount, csvOptions, stringArray, call>>
    /\ UNCHANGED <<pageVars, unitVars, launchVars>>

\* main.js saveORWindCSV from the parsed response on.
SaveORWindCSV ==
    /\ pc = "fetched"
    /\ \E a \in {MainJsAltitudeWinds(windJSON, 1)} :
         IF a.threw
         THEN /\ altitudeWinds' = a.winds
              /\ threw' = TRUE
              /\ UNCHANGED <<pressureWinds, windList, groundWindSpeed,
                             groundWindDirection, stringArray>>
         ELSE \E pw \in {MainJsPressureWinds(windJSON, 1)} :
                \E f \in {Fuse(a.winds, pw)} :
                  /\ altitudeWinds' = a.winds
                  /\ pressureWinds' = pw
                  /\ windList' = f.windList
                  /\ groundWindSpeed' = f.groundWindSpeed
                  /\ groundWindDirection' = f.groundWindDirection
                  /\ threw' = f.threw
                  /\ stringArray' =
                        IF f.threw THEN stringArray
                        ELSE CsvLines(f.windList, Rat(GroundElevationOf(windJSON)),
                                      csvOptions)
    /\ pc' = "saved"
    /\ UNCHANGED <<windJSON, hourCount, csvOptions, hourForecast, windForecastList, call>>
    /\ UNCHANGED <<pageVars, unitVars, launchVars>>

Next == GetOpenMeteoWindPredictionData \/ SaveORWindCSV

Spec == Init /\ [][Next]_vars
----------------------------------------------------------------------------
(* Vocabulary of the properties *)

\* A handler has run and left its fusion in the state.
Fused == pc \in {"parsed", "saved"}

Ascending(s) ==
    \A i \in 1..(Len(s) - 1) : RLe(s[i].altitude, s[i + 1].altitude)

InputsAscending == Ascending(altitudeWinds) /\ Ascending(pressureWinds)

\* The lowest pressure wind is above ground.
LowestAboveGround ==
    Fused /\ Len(pressureWinds) > 0 /\ RGt(pressureWinds[1].altitude, Rat(0))

\* The lowest pressure wind is at or below ground and a later one is above.
GroundOverlap ==
    /\ Fused
    /\ Len(pressureWinds) > 0
    /\ RLe(pressureWinds[1].altitude, Rat(0))
    /\ \E i \in 1..Len(pressureWinds) : RGt(pressureWinds[i].altitude, Rat(0))

\* The first pressure index whose altitude is above ground.
FirstPositive ==
    CHOOSE i \in 1..Len(pressureWinds) :
        /\ RGt(pressureWinds[i].altitude, Rat(0))
        /\ \A j \in 1..(i - 1) : ~RGt(pressureWinds[j].altitude, Rat(0))

\* The altitude winds strictly below the lowest pressure wind.
BelowLowestPressure ==
    SelectSeq(altitudeWinds,
              LAMBDA a : RLt(a.altitude, pressureWinds[1].altitude))

RMin(a, b) == IF RLt(b, a) THEN b ELSE a

RMax(a, b) == IF RLt(a, b) THEN b ELSE a

BracketLow == pressureWinds[FirstPositive - 1]

BracketHigh == pressureWinds[FirstPositive]

BracketDirectionDelta ==
    RAbs(RSub(BracketHigh.windDirection, BracketLow.windDirection))

----------------------------------------------------------------------------
(* Properties *)

\* C1: a non-empty fused list built from ascending inputs starts with an
\* altitude-0 sample and never descends in altitude afterwards.
C1_AscendingFromGround ==
    (Fused /\ InputsAscending /\ Len(windList) > 0) =>
        /\ REq(windList[1].altitude, Rat(0))
        /\ Ascending(windList)

\* C2: with the lowest pressure wind above ground, the fused list is one
\* altitude-0 sample, then the altitude winds strictly below the lowest
\* pressure wind in input order, then every pressure wind in input order.
C2_AboveGroundExact ==
    (LowestAboveGround /\ InputsAscending) =>
        /\ Len(windList) = 1 + Len(BelowLowestPressure) + Len(pressureWinds)
        /\ REq(windList[1].altitude, Rat(0))
        /\ SubSeq(windList, 2, Len(windList)) = BelowLowestPressure \o pressureWinds

C2_Witness ==
    /\ LowestAboveGround
    /\ Len(BelowLowestPressure) >= 2
    /\ Len(BelowLowestPressure) < Len(altitudeWinds)
    /\ Len(pressureWinds) >= 2
    /\ Len(windList) = 1 + Len(BelowLowestPressure) + Len(pressureWinds)

\* C3: with the lowest pressure wind above ground, the one synthesized
\* altitude-0 sample copies speed and direction from the lowest altitude wind
\* strictly below the lowest pressure wind, or from the first pressure wind
\* when no altitude wind qualifies.
C3_GroundCopiedVerbatim ==
    LowestAboveGround =>
        LET from == IF Len(BelowLowestPressure) > 0
                    THEN BelowLowestPressure[1] ELSE pressureWinds[1]
        IN  /\ windList[1] = WindAtAltitude(Rat(0), from.windSpeed, from.windDirection)
            /\ groundWindSpeed = from.windSpeed
            /\ groundWindDirection = from.windDirection
            /\ Len(windList) = 1 + Len(BelowLowestPressure) + Len(pressureWinds)

C3_Witness ==
    /\ LowestAboveGround
    /\ Len(altitudeWinds) > 0
    /\ Len(BelowLowestPressure) = 0
    /\ Len(pressureWinds) >= 2
    /\ windList[1].windSpeed = pressureWinds[1].windSpeed
    /\ windList[1].windSpeed # pressureWinds[2].windSpeed

\* C4: with the lowest pressure wind at or below ground and some pressure
\* wind above ground, the fused list is one altitude-0 sample followed by the
\* pressure winds from the first one above ground onward; nothing at or below
\* ground and no altitude wind is in it.
C4_GroundOverlapExact ==
    GroundOverlap =>
        /\ Len(windList) = 1 + (Len(pressureWinds) - FirstPositive + 1)
        /\ REq(windList[1].altitude, Rat(0))
        /\ SubSeq(windList, 2, Len(windList)) =
              SubSeq(pressureWinds, FirstPositive, Len(pressureWinds))
        /\ \A j \in 2..Len(windList) : RGt(windList[j].altitude, Rat(0))

C4_Witness ==
    /\ GroundOverlap
    /\ FirstPositive >= 3
    /\ Len(altitudeWinds) > 0
    /\ Len(windList) = 2 + Len(pressureWinds) - FirstPositive
    /\ windList[2] = pressureWinds[FirstPositive]

\* C5: in the ground-overlap case the ground speed is
\* min(v[i-1], v[i]) + ratio * |v[i] - v[i-1]| with
\* ratio = |altitude[i-1]| / (altitude[i] - altitude[i-1]), and so lies
\* between the two bracketing speeds.
C5_GroundSpeedFormula ==
    GroundOverlap =>
        LET ratio == RDiv(RAbs(BracketLow.altitude),
                          RSub(BracketHigh.altitude, BracketLow.altitude))
            lo == RMin(BracketLow.windSpeed, BracketHigh.windSpeed)
            hi == RMax(BracketLow.windSpeed, BracketHigh.windSpeed)
        IN  /\ groundWindSpeed = RAdd(lo, RMul(ratio, RSub(hi, lo)))
            /\ windList[1].windSpeed = groundWindSpeed
            /\ RLe(lo, groundWindSpeed)
            /\ RLe(groundWindSpeed, hi)

C5_Witness ==
    /\ GroundOverlap
    /\ RLt(BracketLow.altitude, Rat(0))
    /\ RLt(BracketHigh.windSpeed, BracketLow.windSpeed)
    /\ RLt(BracketHigh.windSpeed, groundWindSpeed)
    /\ RLt(groundWindSpeed, BracketLow.windSpeed)

\* C6: in the ground-overlap case, when the bracketing directions differ by
\* 180 degrees or more the ground direction lies on the arc between them that
\* passes through North.
C6_ShorterArc ==
    (GroundOverlap /\ RLe(Rat(180), BracketDirectionDelta)) =>
        \/ RLe(groundWindDirection,
               RMin(BracketLow.windDirection, BracketHigh.windDirection))
        \/ RLe(RMax(BracketLow.windDirection, BracketHigh.windDirection),
               groundWindDirection)

\* C7: in the ground-overlap case, with every pressure direction in [0,360),
\* the ground direction is in [0,360).
C7_GroundDirectionInRange ==
    (GroundOverlap /\ \A i \in 1..Len(pressureWinds) :
                          /\ RLe(Rat(0), pressureWinds[i].windDirection)
                          /\ RLt(pressureWinds[i].windDirection, Rat(360))) =>
        /\ RLe(Rat(0), groundWindDirection)
        /\ RLt(groundWindDirection, Rat(360))
        /\ windList[1].windDirection = groundWindDirection

C7_Witness ==
    /\ GroundOverlap
    /\ RLe(Rat(180), BracketDirectionDelta)
    /\ RLt(BracketLow.altitude, Rat(0))
    /\ RLe(Rat(0), groundWindDirection)
    /\ RLt(groundWindDirection, Rat(360))

\* C8: the ground wind speed and direction recorded on a profile with a
\* non-empty sample list are those of its altitude-0 sample at index 0.
C8_ProfileGroundMatches ==
    (pc = "parsed" /\ Len(hourForecast.windData) > 0) =>
        /\ REq(hourForecast.windData[1].altitude, Rat(0))
        /\ hourForecast.groundWindSpeed = hourForecast.windData[1].windSpeed
        /\ hourForecast.groundWindDirection = hourForecast.windData[1].windDirection

C8_Witness ==
    /\ pc = "parsed"
    /\ GroundOverlap
    /\ Len(hourForecast.windData) > 1
    /\ hourForecast.groundWindSpeed # Rat(0)
    /\ hourForecast.groundWindSpeed # hourForecast.groundWindDirection
    /\ hourForecast.groundWindSpeed = hourForecast.windData[1].windSpeed

\* C9: an hour without pressure winds yields an empty fused list, whatever
\* altitude winds there are, and no error.
C9_NoPressureEmptyProfile ==
    (Fused /\ Len(pressureWinds) = 0) =>
        /\ windList = <<>>
        /\ ~threw
        /\ (pc = "parsed" => hourForecast.windData = <<>>)

C9_Witness ==
    /\ Fused
    /\ Len(pressureWinds) = 0
    /\ Len(altitudeWinds) = Len(openMeteoWindAltitudes)
    /\ windList = <<>>

\* C10: the fusion never divides by zero: the divisor of the ground
\* interpolation is strictly positive, also when neighbouring pressure winds
\* share an altitude, and the ground speed and direction are finite.
C10_NoDivisionByZero ==
    Fused =>
        /\ ~threw
        /\ IsFinite(groundWindSpeed)
        /\ IsFinite(groundWindDirection)
        /\ \A j \in 1..Len(windList) :
              IsFinite(windList[j].windSpeed) /\ IsFinite(windList[j].windDirection)
        /\ LET windIndex == FirstAboveGround(pressureWinds, 2)
           IN  (Len(pressureWinds) > 0 /\ RLe(pressureWinds[1].altitude, Rat(0))
                  /\ windIndex <= Len(pressureWinds)) =>
                   RGt(GroundAltitudeDivisor(pressureWinds[windIndex - 1],
                                             pressureWinds[windIndex]), Rat(0))

C10_Witness ==
    /\ GroundOverlap
    /\ FirstPositive = 3
    /\ pressureWinds[1].altitude = pressureWinds[2].altitude
    /\ pressureWinds[1].windSpeed # pressureWinds[2].windSpeed
    /\ IsFinite(groundWindSpeed)
    /\ Len(windList) > 0

----------------------------------------------------------------------------
(* Saving the CSV file with the options of the page *)

\* Ground elevations (metres) of the launch sites of the CSV runs.
CsvElevationValues == {<<40>>, <<100>>}

\* The wind a pressure level of the CSV runs reports at a height.
CsvPressureWind(height) ==
    CASE height < 0 -> <<10, 350>>
      [] height = 0 -> <<14, 10>>
      [] OTHER -> <<12, 120>>

CsvPressureInputs ==
    {[k \in 1..MaxPressure |-> PressureLevel(p[k], 1)] :
        p \in {q \in PressureChoices :
                 \A k \in 1..MaxPressure :
                    q[k] # <<>> =>
                        <<q[k][1].speed, q[k][1].direction>> = CsvPressureWind(q[k][1].height)}}

\* Either every near-surface height reports a wind or none does.
CsvAltitudeInputs ==
    {[k \in 1..Len(openMeteoWindAltitudes) |->
         AltitudeLevel(IF present THEN <<AltitudeEntry(k)>> ELSE <<>>, 1)] :
       present \in BOOLEAN}

\* Contents of the select elements: an option of the list, a value off the
\* list, text, nothing.
CsvAltitudeUnits == {<<<<"0">>>>, <<<<"1">>>>, <<<<"2">>>>, <<<<"3">>>>, <<<<"4">>>>, <<<<"5">>>>, <<<<"6">>>>}

CsvSpeedUnits == {<<<<"1">>>>, <<<<"2">>>>, <<<<"3">>>>, <<<<"4">>>>, <<<<"5">>>>}

CsvDirectionUnits == {<<<<"1">>>>, <<<<"2">>>>, <<<<"3">>>>}

CsvDeviationUnits == {<<<<"0">>>>, <<<<"1">>>>, <<<<"2">>>>, <<<<"3">>>>, <<<<"4">>>>, <<<<"5">>>>}

CsvDeviationValues ==
    {<<<<>>>>, <<<<"a", "b", "c">>>>, <<<<"-", "1">>>>, <<<<"0">>>>, <<<<"0", ".", "2">>>>, <<<<"2">>>>, <<<<"3", ".", "9">>>>, <<<<"5">>>>, <<<<"7", ".", "2">>>>, <<<<"1", "0", "0">>>>, <<<<"I", "n", "f", "i", "n", "i", "t", "y">>>>}

CsvFieldSeparatorValues == {<<<<"1">>>>, <<<<"2">>>>, <<<<"3">>>>, <<<<"4">>>>, <<<<"-", "1">>>>, <<<<"x">>>>, <<<<>>>>, <<>>}

CsvReferenceValues == {<<<<"0">>>>, <<<<"1">>>>}

CsvOddReferenceValues == {<<<<"2">>>>, <<<<"x">>>>, <<<<>>>>, <<>>}

CsvColumnNames == {<<"Alt (m)">>, <<"">>, <<>>}

\* The options the CSV runs consider: one group of inputs is varied at a time.
CsvOptionInputs ==
    {[DefaultCsvOptions EXCEPT !.altitudeReference = r, !.altitudeUnit = u] :
        r \in CsvReferenceValues, u \in CsvAltitudeUnits}
    \cup {[DefaultCsvOptions EXCEPT !.altitudeReference = r, !.speedUnit = u] :
        r \in CsvReferenceValues, u \in CsvSpeedUnits}
    \cup {[DefaultCsvOptions EXCEPT !.altitudeReference = r, !.directionUnit = u] :
        r \in CsvReferenceValues, u \in CsvDirectionUnits}
    \cup {[DefaultCsvOptions EXCEPT !.deviationValue = v, !.deviationUnit = u] :
        v \in CsvDeviationValues, u \in CsvDeviationUnits}
    \cup {[DefaultCsvOptions EXCEPT !.altitudeReference = <<<<"1">>>>, !.deviationValue = v] :
        v \in CsvDeviationValues \cup {<<>>}}
    \cup {[DefaultCsvOptions EXCEPT !.fieldSeparator = f] : f \in CsvFieldSeparatorValues}
    \cup {[DefaultCsvOptions EXCEPT !.altitudeReference = r] : r \in CsvOddReferenceValues}
    \cup {[DefaultCsvOptions EXCEPT !.altitudeName = a, !.speedName = a,
                                    !.directionName = d, !.deviationName = d] :
        a \in CsvColumnNames, d \in CsvColumnNames}

InitCsv ==
    \E json \in [elevation : CsvElevationValues, altitude : CsvAltitudeInputs,
                 pressure : CsvPressureInputs],
       options \in CsvOptionInputs :
        Start(json, 1, options)

NextCsv == SaveORWindCSV

SpecCsv == InitCsv /\ [][NextCsv]_vars

\* The handler wrote the file.
Saved == pc = "saved" /\ ~threw

Options == ReadCsvOptions(csvOptions)

Elevation == Rat(GroundElevationOf(windJSON))

\* The altitude above ground of the i-th fused sample.
AboveGround(i) == RSub(windList[i].altitude, Elevation)

\* The data rows of the file.
DataRows == Tail(stringArray)

----------------------------------------------------------------------------
(* Responses with incomplete levels, for launch windows of several hours *)

\* The array with null in place of its i-th cell.
NullAt(array, i) == [array EXCEPT ![i] = <<>>]

\* The array without its last cell: too short for the last hour.
Shortened(array) == SubSeq(array, 1, Len(array) - 1)

\* What the k-th near-surface height may hold: complete arrays, or one field
\* whose name is absent, whose array is empty or too short, or which is null
\* at the first or at the last hour.
IngestAltitudeShapes(k) ==
    LET full == AltitudeLevel(<<AltitudeEntry(k)>>, MaxHours)
    IN  CASE k = 1 -> {full, [full EXCEPT !.speed = <<>>], [full EXCEPT !.speed = <<<<>>>>]}
          [] k = 2 -> {full, [full EXCEPT !.speed = <<Shortened(full.speed[1])>>],
                       [full EXCEPT !.speed = <<NullAt(full.speed[1], 1)>>]}
          [] k = 3 -> {full, [full EXCEPT !.direction = <<>>],
                       [full EXCEPT !.direction = <<NullAt(full.direction[1], MaxHours)>>]}
          [] OTHER -> {full, [full EXCEPT !.direction = <<<<>>>>]}

IngestAltitudeInputs ==
    {a \in [1..Len(openMeteoWindAltitudes) ->
              UNION {IngestAltitudeShapes(k) : k \in 1..Len(openMeteoWindAltitudes)}] :
        \A k \in 1..Len(openMeteoWindAltitudes) : a[k] \in IngestAltitudeShapes(k)}

\* The k-th pressure level: heights ascend with k.
IngestPressureEntry(k) ==
    [height |-> 60 * k - 100, speed |-> 10 + k, direction |-> 100 + 20 * k]

IngestPressureShapes(k) ==
    LET full == PressureLevel(<<IngestPressureEntry(k)>>, MaxHours)
    IN  IF k % 2 = 1
        THEN {full, [full EXCEPT !.height = <<>>],
              [full EXCEPT !.speed = <<Shortened(full.speed[1])>>],
              [full EXCEPT !.direction = <<NullAt(full.direction[1], 1)>>]}
        ELSE {full, [full EXCEPT !.speed = <<<<>>>>],
              [full EXCEPT !.height = <<NullAt(full.height[1], MaxHours)>>],
              [full EXCEPT !.direction = <<>>]}

IngestPressureInputs ==
    {p \in [1..MaxPressure -> UNION {IngestPressureShapes(k) : k \in 1..MaxPressure}] :
        \A k \in 1..MaxPressure : p[k] \in IngestPressureShapes(k)}

InitIngest ==
    \E json \in [elevation : {<<>>}, altitude : IngestAltitudeInputs,
                 pressure : IngestPressureInputs],
       hours \in 1..MaxHours :
        Start(json, hours, DefaultCsvOptions)

NextIngest == GetOpenMeteoWindPredictionData \/ SaveORWindCSV

SpecIngest == InitIngest /\ [][NextIngest]_vars

----------------------------------------------------------------------------
(* The band functions of wind.js, called directly                          *)
(* floorIndex is the 0-based index of the source: windData[floorIndex] of  *)
(* the source is windData[floorIndex + 1] here.                            *)

\* Reading a property of windData[index] throws a TypeError when the array
\* has no such element.
HasElement(windData, index) == index >= 0 /\ index < Len(windData)

Returned(value) == [threw |-> FALSE, value |-> <<value>>]

Thrown == [threw |-> TRUE, value |-> <<>>]

\* getWindBandPercentage whose safety check looks at the lower bound only.
getWindBandPercentageLowerCheckOnly(rocketAltitude, windData, floorIndex) ==
    IF floorIndex < 0 THEN Returned(Rat(-1))
    ELSE IF ~HasElement(windData, floorIndex) \/ ~HasElement(windData, floorIndex + 1)
    THEN Thrown
    ELSE LET altitudeFloor == windData[floorIndex + 1].altitude
             altitudeCeiling == windData[floorIndex + 2].altitude
             rangeHeight == RAbs(RSub(altitudeCeiling, altitudeFloor))
         IN  IF RLt(rocketAltitude, altitudeFloor) \/ RGt(rocketAltitude, altitudeCeiling)
             THEN Returned(Rat(-1))
             ELSE IF REq(Rat(0), rangeHeight) THEN Returned(Rat(-1))
             ELSE Returned(RDiv(RAbs(RSub(rocketAltitude, altitudeFloor)), rangeHeight))

getWindBandPercentage(rocketAltitude, windData, floorIndex) ==
    IF floorIndex < 0 \/ (floorIndex + 1) >= Len(windData) THEN Returned(Rat(-1))
    ELSE IF ~HasElement(windData, floorIndex) \/ ~HasElement(windData, floorIndex + 1)
    THEN Thrown
    ELSE LET altitudeFloor == windData[floorIndex + 1].altitude
             altitudeCeiling == windData[floorIndex + 2].altitude
             rangeHeight == RAbs(RSub(altitudeCeiling, altitudeFloor))
         IN  IF RLt(rocketAltitude, altitudeFloor) \/ RGt(rocketAltitude, altitudeCeiling)
             THEN Returned(Rat(-1))
             ELSE IF REq(Rat(0), rangeHeight) THEN Returned(Rat(-1))
             ELSE Returned(RDiv(RAbs(RSub(rocketAltitude, altitudeFloor)), rangeHeight))

\* wind.js getAverageWindSpeed
getAverageWindSpeed(bandPercentage, windData, floorIndex) ==
    IF RLt(bandPercentage, Rat(0)) \/ RGt(bandPercentage, Rat(1)) THEN Returned(Rat(-1))
    ELSE IF floorIndex < 0 \/ (floorIndex + 1) >= Len(windData) THEN Returned(Rat(-1))
    ELSE IF ~HasElement(windData, floorIndex) \/ ~HasElement(windData, floorIndex + 1)
    THEN Thrown
    ELSE LET speedFloor == windData[floorIndex + 1].windSpeed
             speedRange == RSub(windData[floorIndex + 2].windSpeed, speedFloor)
             speedAtAltitude == RAdd(speedFloor, RMul(bandPercentage, speedRange))
         IN  Returned(RDiv(RAdd(speedFloor, speedAtAltitude), Rat(2)))

\* wind.js getAverageWindDirection
getAverageWindDirection(bandPercentage, windData, floorIndex) ==
    IF RLt(bandPercentage, Rat(0)) \/ RGt(bandPercentage, Rat(1)) THEN Returned(Rat(-1))
    ELSE IF floorIndex < 0 \/ (floorIndex + 1) >= Len(windData) THEN Returned(Rat(-1))
    ELSE IF ~HasElement(windData, floorIndex) \/ ~HasElement(windData, floorIndex + 1)
    THEN Thrown
    ELSE LET directionA == windData[floorIndex + 1].windDirection
             targetDirection ==
                 RAdd(directionA,
                      RMul(bandPercentage,
                           RSub(windData[floorIndex + 2].windDirection, directionA)))
             averageDirection == RAdd(directionA, targetDirection)
         IN  IF RLt(RAbs(RSub(directionA, targetDirection)), Rat(180))
             THEN Returned(RDiv(averageDirection, Rat(2)))
             ELSE LET northerly == RDiv(RSub(averageDirection, Rat(360)), Rat(2))
                  IN  IF RLt(northerly, Rat(0)) THEN Returned(RAdd(northerly, Rat(360)))
                      ELSE Returned(northerly)

----------------------------------------------------------------------------
(* geo.js and driftWithWind *)

feetToMeters(distanceFeet) == RMul(distanceFeet, Norm(3048, 10000))

\* The constructor throws a TypeError when isNaN holds of a coordinate.
GeoLocationThrows(lat, lon) == IsNaN(lat) \/ IsNaN(lon)

GeoLocation(lat, lon) == [latitude |-> lat, longitude |-> lon]

\* moveAlongBearingKilometers overwrites the coordinates of geoPosition with
\* those of the destination.  The great-circle trigonometry is left
\* uninterpreted: the destination is the term of its arguments.
moveAlongBearingKilometers(geoPosition, distance, bearing) ==
    [movedFrom |-> geoPosition, distance |-> distance, bearing |-> bearing]

\* driftWithWind that keeps the sign of the descent rate.
driftWithWindSigned(rocketLocation, windSpeed, windDirection, decentRate, descentDistance) ==
    IF IsNaN(decentRate) \/ REq(Rat(0), decentRate)
    THEN [value |-> <<>>, rocketLocation |-> rocketLocation, divided |-> FALSE]
    ELSE LET decentDuration == RDiv(descentDistance, decentRate)
             driftDistance == RMul(decentDuration, RMul(windSpeed, Norm(168781, 100000)))
             bearing == IF RLt(windDirection, Rat(180)) THEN RAdd(windDirection, Rat(180))
                        ELSE RSub(windDirection, Rat(180))
         IN  [value |-> <<driftDistance>>,
              rocketLocation |->
                  moveAlongBearingKilometers(rocketLocation, feetToMeters(driftDistance),
                                             bearing),
              divided |-> TRUE]

\* value is <<>> when the function returns nothing; rocketLocation is the
\* location object after the call; divided tells whether a division ran.
driftWithWind(rocketLocation, windSpeed, windDirection, decentRate, descentDistance) ==
    IF IsNaN(decentRate) \/ REq(Rat(0), decentRate)
    THEN [value |-> <<>>, rocketLocation |-> rocketLocation, divided |-> FALSE]
    ELSE LET decentDuration == RDiv(descentDistance, RAbs(decentRate))
             driftDistance == RMul(decentDuration, RMul(windSpeed, Norm(168781, 100000)))
             bearing == IF RLt(windDirection, Rat(180)) THEN RAdd(windDirection, Rat(180))
                        ELSE RSub(windDirection, Rat(180))
         IN  [value |-> <<driftDistance>>,
              rocketLocation |->
                  moveAlongBearingKilometers(rocketLocation, feetToMeters(driftDistance),
                                             bearing),
              divided |-> TRUE]

----------------------------------------------------------------------------
(* main.js getLaunchSiteLocation and launch.js LaunchTimeData *)

\* null is <<>>, a location is <<location>>.
getLaunchSiteLocation(latitudeValue, longitudeValue) ==
    LET latitude == parseFloat(latitudeValue)
        longitude == parseFloat(longitudeValue)
    IN  IF IsNaN(latitude) THEN <<>>
        ELSE IF RGt(latitude, Rat(90)) \/ RLt(latitude, Rat(-90)) THEN <<>>
        ELSE IF IsNaN(longitude) THEN <<>>
        ELSE IF RGt(longitude, Rat(180)) \/ RLt(longitude, Rat(-180)) THEN <<>>
        ELSE <<GeoLocation(latitude, longitude)>>

\* The constructor up to the hours it stores; startHour is its local.
LaunchTimeData(launchDateValue, startTimeValue, endTimeValue) ==
    IF Len(launchDateValue) < 10 THEN Thrown
    ELSE IF Len(startTimeValue) < 2 THEN Thrown
    ELSE IF Len(endTimeValue) < 2 THEN Thrown
    ELSE LET numYear == parseInt(Substring(launchDateValue, 0, 4))
             numMonth == parseInt(Substring(launchDateValue, 5, 7))
             numDay == parseInt(Substring(launchDateValue, 8, 10))
             startHour == parseInt(Substring(startTimeValue, 0, 2))
             endHour == parseInt(Substring(endTimeValue, 0, 2))
         IN  IF IsNaN(numYear) \/ IsNaN(numMonth) \/ IsNaN(numDay) THEN Thrown
             ELSE IF IsNaN(startHour) THEN Thrown
             ELSE IF IsNaN(endHour) THEN Thrown
             ELSE IF RLt(endHour, startHour) THEN Thrown
             ELSE Returned([year |-> numYear, month |-> numMonth, day |-> numDay,
                            startHour |-> startHour, endHour |-> endHour])

----------------------------------------------------------------------------
(* Direct calls: the arguments the model considers *)

\* A profile in feet and knots with a band across North (350 to 10 degrees)
\* and a band of zero height (two samples at 100 ft).
CallProfile ==
    <<WindAtAltitude(Rat(0), Rat(5), Rat(350)), WindAtAltitude(Rat(100), Rat(10), Rat(10)),
      WindAtAltitude(Rat(100), Rat(12), Rat(40)), WindAtAltitude(Rat(300), Rat(8), Rat(200))>>

CallWindData == {SubSeq(CallProfile, 1, n) : n \in 0..Len(CallProfile)}

CallAltitudes ==
    {Rat(-5), Rat(0), Rat(25), Rat(50), Rat(100), Rat(150), Rat(300), Rat(400)}

CallIndexes == -1..Len(CallProfile)

CallFractions ==
    {Norm(-1, 2), Rat(0), Norm(1, 4), Norm(1, 2), Norm(3, 4), Rat(1), Norm(3, 2)}

CallLocations == {GeoLocation(Rat(30), Rat(-97))}

CallWindSpeeds == {Rat(0), Rat(10)}

CallWindDirections == {Rat(90), Rat(180), Rat(270)}

CallDescentRates == {NaN, Rat(0), Rat(20), Rat(-20), Rat(15), Rat(-15)}

CallDescentDistances == {Rat(100), Rat(300)}

\* Numbers a constructor may be handed.
CallNumbers == {NaN, Infinity, RNeg(Infinity), Rat(0), Rat(100)}

CallLatitudes == {NaN, Infinity, Rat(-91), Rat(-90), Rat(0), Rat(90), Rat(100)}

CallLongitudes == {NaN, RNeg(Infinity), Rat(-181), Rat(-180), Rat(0), Rat(180), Rat(200)}

\* Contents of the latitude input.
CallLatitudeValues ==
    {<<>>,
     <<"a", "b", "c">>,
     <<"4", "5">>,
     <<"-", "9", "0">>,
     <<"9", "0", ".", "5">>,
     <<"1", "0", "0">>,
     <<"I", "n", "f", "i", "n", "i", "t", "y">>,
     <<" ", "-", "4", "5", ".", "5">>}

\* Contents of the longitude input.
CallLongitudeValues ==
    {<<>>,
     <<"x">>,
     <<"-", "9", "7", ".", "5">>,
     <<"1", "8", "0">>,
     <<"1", "8", "1">>,
     <<"-", "2", "0", "0">>,
     <<"-", "I", "n", "f", "i", "n", "i", "t", "y">>,
     <<"1", "2", "a", "b", "c">>}

\* Contents of the launch date input.
CallDateValues ==
    {<<"2", "0", "2", "6", "-", "0", "1", "-", "0", "5">>,
     <<"2", "0", "2", "6", "-", "1", "-", "5">>,
     <<"a", "b", "c", "d", "-", "0", "1", "-", "0", "5">>}

\* Contents of a launch time input.
CallTimeValues ==
    {<<>>,
     <<"9">>,
     <<"0", "9", ":", "0", "0">>,
     <<"1", "0", ":", "0", "0">>,
     <<"2", "3", ":", "5", "9">>,
     <<"2", "5", ":", "0", "0">>,
     <<"-", "1", ":", "0", "0">>,
     <<"a", "b", ":", "0", "0">>}

\* The response held while the functions are called directly.
CallForecast ==
    [elevation |-> <<>>,
     altitude |-> [k \in 1..Len(openMeteoWindAltitudes) |->
                      AltitudeLevel(<<AltitudeEntry(k)>>, 1)],
     pressure |-> [k \in 1..MaxPressure |-> PressureLevel(<<>>, 1)]]

InitCalls == Start(CallForecast, 1, DefaultCsvOptions)

\* What a direct call leaves alone.
handlerVars ==
    <<windJSON, hourCount, csvOptions, altitudeWinds, pressureWinds, windList,
      groundWindSpeed, groundWindDirection, hourForecast, windForecastList,
      stringArray, threw, pageVars, unitVars, launchVars>>

CallGetWindBandPercentage ==
    /\ pc = "fetched"
    /\ \E rocketAltitude \in CallAltitudes, windData \in CallWindData,
          floorIndex \in CallIndexes :
           call' = [op |-> "getWindBandPercentage", rocketAltitude |-> rocketAltitude,
                   windData |-> windData, floorIndex |-> floorIndex,
                   result |-> getWindBandPercentage(rocketAltitude, windData, floorIndex)]
    /\ pc' = "called"
    /\ UNCHANGED handlerVars

CallGetAverageWindSpeed ==
    /\ pc = "fetched"
    /\ \E bandPercentage \in CallFractions, windData \in CallWindData,
          floorIndex \in CallIndexes :
           call' = [op |-> "getAverageWindSpeed", bandPercentage |-> bandPercentage,
                   windData |-> windData, floorIndex |-> floorIndex,
                   result |-> getAverageWindSpeed(bandPercentage, windData, floorIndex)]
    /\ pc' = "called"
    /\ UNCHANGED handlerVars

CallGetAverageWindDirection ==
    /\ pc = "fetched"
    /\ \E bandPercentage \in CallFractions, windData \in CallWindData,
          floorIndex \in CallIndexes :
           call' = [op |-> "getAverageWindDirection", bandPercentage |-> bandPercentage,
                   windData |-> windData, floorIndex |-> floorIndex,
                   result |-> getAverageWindDirection(bandPercentage, windData, floorIndex)]
    /\ pc' = "called"
    /\ UNCHANGED handlerVars

CallDriftWithWind ==
    /\ pc = "fetched"
    /\ \E rocketLocation \in CallLocations, windSpeed \in CallWindSpeeds,
          windDirection \in CallWindDirections, decentRate \in CallDescentRates,
          descentDistance \in CallDescentDistances :
           call' = [op |-> "driftWithWind", rocketLocation |-> rocketLocation,
                   windSpeed |-> windSpeed, windDirection |-> windDirection,
                   decentRate |-> decentRate, descentDistance |-> descentDistance,
                   result |-> driftWithWind(rocketLocation, windSpeed, windDirection,
                                            decentRate, descentDistance)]
    /\ pc' = "called"
    /\ UNCHANGED handlerVars

\* new WindAtAltitude(alt, speed, dir)
CallWindAtAltitude ==
    /\ pc = "fetched"
    /\ \E alt \in CallNumbers, speed \in CallNumbers, dir \in CallNumbers :
           call' = [op |-> "WindAtAltitude", alt |-> alt, speed |-> speed, dir |-> dir,
                   result |-> IF WindAtAltitudeThrows(alt, speed, dir) THEN Thrown
                              ELSE Returned(WindAtAltitude(alt, speed, dir))]
    /\ pc' = "called"
    /\ UNCHANGED handlerVars

\* new GeoLocation(lat, lon)
CallGeoLocation ==
    /\ pc = "fetched"
    /\ \E lat \in CallLatitudes, lon \in CallLongitudes :
           call' = [op |-> "GeoLocation", lat |-> lat, lon |-> lon,
                   result |-> IF GeoLocationThrows(lat, lon) THEN Thrown
                              ELSE Returned(GeoLocation(lat, lon))]
    /\ pc' = "called"
    /\ UNCHANGED handlerVars

CallGetLaunchSiteLocation ==
    /\ pc = "fetched"
    /\ \E latitudeValue \in CallLatitudeValues, longitudeValue \in CallLongitudeValues :
           call' = [op |-> "getLaunchSiteLocation", latitudeValue |-> latitudeValue,
                   longitudeValue |-> longitudeValue,
                   result |-> getLaunchSiteLocation(latitudeValue, longitudeValue)]
    /\ pc' = "called"
    /\ UNCHANGED handlerVars

\* new LaunchTimeData(launchDateValue, startTimeValue, endTimeValue)
CallLaunchTimeData ==
    /\ pc = "fetched"
    /\ \E launchDateValue \in CallDateValues, startTimeValue \in CallTimeValues,
          endTimeValue \in CallTimeValues :
           call' = [op |-> "LaunchTimeData", launchDateValue |-> launchDateValue,
                   startTimeValue |-> startTimeValue, endTimeValue |-> endTimeValue,
                   result |-> LaunchTimeData(launchDateValue, startTimeValue, endTimeValue)]
    /\ pc' = "called"
    /\ UNCHANGED handlerVars

\* The altitudes of a windsAloft response, duplicated and out of order.
AloftAltitudes == {<<>>, <<3000, 1000, 3000>>}

\* The speeds or directions of a windsAloft response by altitude.
AloftValues ==
    {(1000 :> <<"1", "2">>) @@ (3000 :> <<"2", "7", "0">>),
     (3000 :> <<"9">>),
     (1000 :> <<"1", "2">>) @@ (3000 :> <<"a", "b">>)}

AloftGroundValues == {<<>>, <<Rat(7)>>, <<Rat(270)>>}

\* The windsAloft responses the model considers; the fields a model does
\* not read are left out.
CallWindsAloft ==
    [model : {"Op40"}, altFt : AloftAltitudes, speed : AloftValues,
     direction : AloftValues, groundElev : {<<>>, <<Rat(500)>>},
     groundSpd : AloftGroundValues, groundDir : AloftGroundValues]
    \cup
    [model : {"RAP"}, altFtRaw : AloftAltitudes, speedRaw : AloftValues,
     directionRaw : {(1000 :> <<"9", "0">>) @@ (3000 :> <<"1", "8", "0">>)},
     groundElev : {<<>>}, groundSpd : {<<Rat(7)>>}, groundDir : {<<Rat(270)>>}]

\* forecast.loadWindsAloftData(windsAloft) on a new WindForecastData
CallLoadWindsAloftData ==
    /\ pc = "fetched"
    /\ \E windsAloft \in CallWindsAloft :
           call' = [op |-> "loadWindsAloftData", windJSON |-> windsAloft,
                   result |-> loadWindsAloftData(WindForecastData, windsAloft)]
    /\ pc' = "called"
    /\ UNCHANGED handlerVars

NextCalls ==
    \/ CallLoadWindsAloftData
    \/ CallGetWindBandPercentage
    \/ CallGetAverageWindSpeed
    \/ CallGetAverageWindDirection
    \/ CallDriftWithWind
    \/ CallWindAtAltitude
    \/ CallGeoLocation
    \/ CallGetLaunchSiteLocation
    \/ CallLaunchTimeData

SpecCalls == InitCalls /\ [][NextCalls]_vars

----------------------------------------------------------------------------
(* C11 *)

\* The band of a call lies inside the array.
BandInArray(c) == c.floorIndex >= 0 /\ c.floorIndex + 1 < Len(c.windData)

BandFloor(c) == c.windData[c.floorIndex + 1]

BandCeiling(c) == c.windData[c.floorIndex + 2]

\* C11: getWindBandPercentage never throws; it returns -1 when floorIndex or
\* floorIndex + 1 is outside the array, when the rocket altitude is below the
\* floor or above the ceiling of the band, or when the band has zero height,
\* and otherwise (rocketAltitude - floor) / (ceiling - floor), which lies in
\* [0, 1].  Checked for integer indexes and finite altitudes.
C11_BandPercentage ==
    call.op = "getWindBandPercentage" =>
        /\ ~call.result.threw
        /\ IF \/ ~BandInArray(call)
              \/ RLt(call.rocketAltitude, BandFloor(call).altitude)
              \/ RGt(call.rocketAltitude, BandCeiling(call).altitude)
              \/ BandFloor(call).altitude = BandCeiling(call).altitude
           THEN call.result.value = <<Rat(-1)>>
           ELSE /\ call.result.value =
                      <<RDiv(RSub(call.rocketAltitude, BandFloor(call).altitude),
                             RSub(BandCeiling(call).altitude, BandFloor(call).altitude))>>
                /\ RLe(Rat(0), call.result.value[1])
                /\ RLe(call.result.value[1], Rat(1))

\* A call strictly inside a band returned a fraction strictly between 0 and 1.
C11_Witness ==
    /\ call.op = "getWindBandPercentage"
    /\ BandInArray(call)
    /\ ~call.result.threw
    /\ RLt(Rat(0), call.result.value[1])
    /\ RLt(call.result.value[1], Rat(1))

----------------------------------------------------------------------------
(* C12 *)

\* The angle between two bearings of [0, 360], at most 180 degrees.
ArcDistance(x, y) ==
    LET delta == RAbs(RSub(x, y))
    IN  IF RGt(delta, Rat(180)) THEN RSub(Rat(360), delta) ELSE delta

\* x lies on the shorter arc from a to b.
OnShorterArc(x, a, b) == RAdd(ArcDistance(a, x), ArcDistance(x, b)) = ArcDistance(a, b)

\* C12: for a band fraction in [0, 1] and a band inside the array, the bearing
\* getAverageWindDirection returns lies on the shorter arc between the floor
\* direction and the ceiling direction (within 10 degrees of North for floor
\* 350 and ceiling 10).
C12_AverageOnShorterArc ==
    (/\ call.op = "getAverageWindDirection"
     /\ RLe(Rat(0), call.bandPercentage)
     /\ RLe(call.bandPercentage, Rat(1))
     /\ BandInArray(call)) =>
        /\ ~call.result.threw
        /\ OnShorterArc(call.result.value[1], BandFloor(call).windDirection,
                        BandCeiling(call).windDirection)

----------------------------------------------------------------------------
(* C13 *)

\* C13: driftWithWind with a descent rate of 0 or NaN leaves the location as
\* it was, divides nothing and returns nothing; with any other rate r it
\* returns descentDistance / |r| * windSpeed * 1.68781, and the call with -r
\* returns the same distance and leaves the same location.
C13_DriftUsesAbsoluteRate ==
    call.op = "driftWithWind" =>
        IF IsNaN(call.decentRate) \/ call.decentRate = Rat(0)
        THEN /\ call.result.value = <<>>
             /\ call.result.rocketLocation = call.rocketLocation
             /\ ~call.result.divided
        ELSE /\ call.result.value =
                   <<RMul(RDiv(call.descentDistance, RAbs(call.decentRate)),
                          RMul(call.windSpeed, Norm(168781, 100000)))>>
             /\ call.result =
                   driftWithWind(call.rocketLocation, call.windSpeed, call.windDirection,
                                 RNeg(call.decentRate), call.descentDistance)

\* A call with a negative rate returned a positive drift and moved the rocket.
C13_Witness ==
    /\ call.op = "driftWithWind"
    /\ RLt(call.decentRate, Rat(0))
    /\ call.result.value # <<>>
    /\ RGt(call.result.value[1], Rat(0))
    /\ call.result.rocketLocation # call.rocketLocation

----------------------------------------------------------------------------
(* C14 *)

\* C14: new WindAtAltitude(alt, speed, dir) succeeds exactly when the three
\* arguments are finite numbers; NaN, Infinity and -Infinity make it throw.
C14_FiniteFieldsOnly ==
    call.op = "WindAtAltitude" =>
        (~call.result.threw <=>
            (IsFinite(call.alt) /\ IsFinite(call.speed) /\ IsFinite(call.dir)))

----------------------------------------------------------------------------
(* C15 *)

CoordinatesValid(lat, lon) ==
    /\ IsFinite(lat) /\ RLe(Rat(-90), lat) /\ RLe(lat, Rat(90))
    /\ IsFinite(lon) /\ RLe(Rat(-180), lon) /\ RLe(lon, Rat(180))

\* C15: a GeoLocation is constructed exactly when the latitude is a finite
\* number of [-90, 90] and the longitude a finite number of [-180, 180], by
\* the constructor itself and through getLaunchSiteLocation.
C15_CoordinatesInRange ==
    /\ call.op = "GeoLocation" =>
          (~call.result.threw <=> CoordinatesValid(call.lat, call.lon))
    /\ call.op = "getLaunchSiteLocation" =>
          (call.result # <<>> <=>
              CoordinatesValid(parseFloat(call.latitudeValue),
                               parseFloat(call.longitudeValue)))

----------------------------------------------------------------------------
(* C16 *)

\* C16: every LaunchTimeData that was constructed has
\* 0 <= startHour <= endHour <= 23.
C16_HoursWithinDay ==
    (call.op = "LaunchTimeData" /\ ~call.result.threw) =>
        /\ RLe(Rat(0), call.result.value[1].startHour)
        /\ RLe(call.result.value[1].startHour, call.result.value[1].endHour)
        /\ RLe(call.result.value[1].endHour, Rat(23))

----------------------------------------------------------------------------
(* C17 *)

AglSelected == csvOptions.altitudeReference = <<<<"1">>>>

MslSelected == csvOptions.altitudeReference = <<<<"0">>>>

\* A row is written for the i-th fused sample under the AGL reference: the
\* sample is not below ground, or the next sample exists and is not.
EmitsRow(i) ==
    \/ ~RLt(AboveGround(i), Rat(0))
    \/ i < Len(windList) /\ ~RLt(AboveGround(i + 1), Rat(0))

\* The place among the data rows of the row of the i-th sample.
RowOf(i) == Cardinality({j \in 1..i : EmitsRow(j)})

\* The speed at ground level on the line from sample i to sample i + 1.
GroundLevelSpeed(i) ==
    RAdd(windList[i].windSpeed,
         RMul(RDiv(RNeg(AboveGround(i)), RSub(AboveGround(i + 1), AboveGround(i))),
              RSub(windList[i + 1].windSpeed, windList[i].windSpeed)))

\* C17: with the AGL reference selected no data row has a negative altitude.
\* A sample below ground is left out when it is the last one or the next one
\* is below ground too, and otherwise gives one row of altitude 0 whose speed
\* is interpolated linearly towards the next sample; a sample at or above
\* ground gives a row with its altitude minus the ground elevation.
C17_AglRowsNotBelowGround ==
    (Saved /\ AglSelected) =>
        /\ \A k \in 1..Len(DataRows) : ~RLt(DataRows[k].fields[1], Rat(0))
        /\ Len(DataRows) = Cardinality({i \in 1..Len(windList) : EmitsRow(i)})
        /\ \A i \in 1..Len(windList) :
              EmitsRow(i) =>
                 IF RLt(AboveGround(i), Rat(0))
                 THEN /\ DataRows[RowOf(i)].fields[1] = Rat(0)
                      /\ DataRows[RowOf(i)].fields[2] =
                            ConvertSpeed(GroundLevelSpeed(i), Options.windSpeedUnitIndex)
                 ELSE DataRows[RowOf(i)].fields[1] =
                         ConvertAltitude(AboveGround(i), Options.altitudeUnitIndex)

\* A file whose first row was interpolated at ground level from a sample
\* below ground, followed by rows of samples above ground.
C17_Witness ==
    /\ Saved
    /\ AglSelected
    /\ Len(windList) > 2
    /\ RLt(AboveGround(1), Rat(0))
    /\ RGt(AboveGround(2), Rat(0))
    /\ Len(DataRows) = Len(windList)
    /\ DataRows[1].fields[1] = Rat(0)
    /\ DataRows[1].fields[2] # windList[1].windSpeed

----------------------------------------------------------------------------
(* C18 *)

\* The largest deviation of the unit selected in the page.
SelectedDeviationMaximum ==
    CASE csvOptions.deviationUnit = <<<<"1">>>> -> Norm(72, 10)
      [] csvOptions.deviationUnit = <<<<"2">>>> -> Norm(656, 100)
      [] csvOptions.deviationUnit = <<<<"3">>>> -> Norm(447, 100)
      [] csvOptions.deviationUnit = <<<<"4">>>> -> Norm(389, 100)
      [] OTHER -> Rat(2)

\* The number the value input holds, NaN when it holds none.
EnteredDeviation ==
    IF csvOptions.deviationValue = <<>> THEN NaN
    ELSE parseFloat(csvOptions.deviationValue[1])

\* C18: the standard deviation of every data row lies in [0, max(unit)],
\* max being 2.0 (m/s), 7.2 (km/s), 6.56 (ft/s), 4.47 (mph), 3.89 (kt): an
\* input that is no number or is negative gives 0.2, a larger input gives
\* the maximum of the unit, any other input is written as entered.
C18_DeviationWithinUnitMaximum ==
    Saved =>
        \A k \in 1..Len(DataRows) :
            /\ RLe(Rat(0), DataRows[k].fields[4])
            /\ RLe(DataRows[k].fields[4], SelectedDeviationMaximum)
            /\ DataRows[k].fields[4] =
                  (IF IsNaN(EnteredDeviation) \/ RLt(EnteredDeviation, Rat(0))
                   THEN Norm(2, 10)
                   ELSE IF RGt(EnteredDeviation, SelectedDeviationMaximum)
                   THEN SelectedDeviationMaximum
                   ELSE EnteredDeviation)

\* A file in knots whose rows carry 3.89 for an input of 100.
C18_Witness ==
    /\ Saved
    /\ Len(DataRows) > 1
    /\ csvOptions.deviationUnit = <<<<"4">>>>
    /\ EnteredDeviation = Rat(100)
    /\ DataRows[1].fields[4] = Norm(389, 100)

----------------------------------------------------------------------------
(* C19 *)

\* C19: with the MSL reference selected the file is one header line, the four
\* column names joined by the chosen separator, followed by one data line
\* per sample of the fused list, in the order of the list, in the chosen
\* units.
C19_MslOneRowPerSample ==
    (Saved /\ MslSelected) =>
        /\ Len(stringArray) = 1 + Len(windList)
        /\ stringArray[1].fields =
              <<Options.altitudeName, Options.windSpeedName, Options.windDirectionName,
                Options.standardDeviationName>>
        /\ \A k \in 1..Len(stringArray) : stringArray[k].separator = Options.fieldSeparator
        /\ \A i \in 1..Len(windList) :
              /\ DataRows[i].fields[1] =
                    ConvertAltitude(windList[i].altitude, Options.altitudeUnitIndex)
              /\ DataRows[i].fields[2] =
                    ConvertSpeed(windList[i].windSpeed, Options.windSpeedUnitIndex)
              /\ DataRows[i].fields[3] =
                    ConvertDirection(windList[i].windDirection,
                                     Options.windDirectionUnitIndex)

\* A file in feet with a header and a row for each of five or more samples.
C19_Witness ==
    /\ Saved
    /\ MslSelected
    /\ Len(windList) >= 5
    /\ Len(stringArray) = 1 + Len(windList)
    /\ csvOptions.altitudeUnit = <<<<"2">>>>
    /\ DataRows[2].fields[1] = RMul(windList[2].altitude, Norm(3281, 1000))

----------------------------------------------------------------------------
(* C20 *)

\* The field has a name, an array that reaches hour h (0-based) and a value
\* other than null there.
CompleteAt(field, h) == field # <<>> /\ h < Len(field[1]) /\ field[1][h + 1] # <<>>

AltitudeComplete(k, h) ==
    /\ CompleteAt(windJSON.altitude[k].speed, h)
    /\ CompleteAt(windJSON.altitude[k].direction, h)

PressureComplete(k, h) ==
    /\ CompleteAt(windJSON.pressure[k].speed, h)
    /\ CompleteAt(windJSON.pressure[k].direction, h)
    /\ CompleteAt(windJSON.pressure[k].height, h)

\* The place of level k among the complete levels at hour h.
AltitudeRank(k, h) == Cardinality({j \in 1..k : AltitudeComplete(j, h)})

PressureRank(k, h) == Cardinality({j \in 1..k : PressureComplete(j, h)})

\* The converted lists hold exactly the levels complete at hour h, in the
\* order of the levels, with the speed each reports at that hour.
OnlyIncompleteSkipped(h) ==
    /\ Len(altitudeWinds) =
          Cardinality({k \in 1..Len(openMeteoWindAltitudes) : AltitudeComplete(k, h)})
    /\ \A k \in 1..Len(openMeteoWindAltitudes) :
          AltitudeComplete(k, h) =>
              altitudeWinds[AltitudeRank(k, h)].windSpeed =
                  Rat(windJSON.altitude[k].speed[1][h + 1][1])
    /\ Len(pressureWinds) =
          Cardinality({k \in 1..Len(windJSON.pressure) : PressureComplete(k, h)})
    /\ \A k \in 1..Len(windJSON.pressure) :
          PressureComplete(k, h) =>
              pressureWinds[PressureRank(k, h)].windSpeed =
                  Rat(windJSON.pressure[k].speed[1][h + 1][1])

\* C20: a height or level whose speed, direction or height field is absent,
\* null or too short for the hour is skipped and every other one is kept, in
\* the order of the levels; no handler is left by an exception, and every
\* hour of the window gets its forecast, filled exactly when the hour has a
\* complete pressure level.
C20_OnlyIncompleteSkipped ==
    /\ pc = "parsed" =>
          /\ ~threw
          /\ OnlyIncompleteSkipped(hourCount - 1)
          /\ Len(windForecastList) = hourCount
          /\ \A h \in 0..(hourCount - 1) :
                (windForecastList[h + 1].model = "Open-Meteo") <=>
                    (\E k \in 1..Len(windJSON.pressure) : PressureComplete(k, h))
    /\ pc = "saved" =>
          /\ ~threw
          /\ OnlyIncompleteSkipped(0)

----------------------------------------------------------------------------
(* The ground entry when a pressure wind lies exactly at ground level *)

\* C29: in the at-or-below-ground case, when the last pressure wind at or
\* below ground has altitude 0, the ground values are exactly that pressure
\* wind's speed and direction.
C29_GroundAtSampleIsSample ==
    (GroundOverlap /\ REq(BracketLow.altitude, Rat(0)))
        => /\ REq(groundWindSpeed, BracketLow.windSpeed)
           /\ REq(groundWindDirection, BracketLow.windDirection)

----------------------------------------------------------------------------
(* main.js: the change listener of the standard deviation unit *)

MaxMagnitude == 654000

\* The option values of the unit select: m/s, km/s, ft/s, mph, kt.
UnitOptionValues == {<<"0">>, <<"1">>, <<"2">>, <<"3">>, <<"4">>}

\* Texts the user types into the standard deviation input.
DeviationTexts ==
    {<<>>,
     <<"0">>,
     <<"0", ".", "2">>,
     <<"1", ".", "5">>,
     <<"2">>,
     <<"7", ".", "5">>,
     <<"-", "1">>}

\* parseInt(standardDevationUnitSelect.value), 0 when it is NaN or outside 0..4.
SelectedUnitIndex(selectValue) ==
    LET standardDeviationUnitIndex == parseInt(selectValue)
    IN  IF IsNaN(standardDeviationUnitIndex) THEN 0
        ELSE IF RLt(standardDeviationUnitIndex, Rat(0))
                \/ RGt(standardDeviationUnitIndex, Rat(4)) THEN 0
        ELSE standardDeviationUnitIndex.n

\* The maximum allowed value of the selected unit; the default is m/s.
UnitMaximum(standardDeviationUnitIndex) ==
    CASE standardDeviationUnitIndex = 1 -> Norm(72, 10)
      [] standardDeviationUnitIndex = 2 -> Norm(656, 100)
      [] standardDeviationUnitIndex = 3 -> Norm(447, 100)
      [] standardDeviationUnitIndex = 4 -> Norm(389, 100)
      [] OTHER -> Rat(2)

\* The value the field is reset to when it holds no number.
UnitDefault(standardDeviationUnitIndex) ==
    CASE standardDeviationUnitIndex = 1 -> Norm(72, 100)
      [] standardDeviationUnitIndex = 2 -> Norm(656, 1000)
      [] standardDeviationUnitIndex = 3 -> Norm(447, 1000)
      [] standardDeviationUnitIndex = 4 -> Norm(389, 1000)
      [] OTHER -> Norm(2, 10)

\* "Convert the current value to the default m/s."
ConvertToMetersPerSecond(standardDeviationValue, unitIndex) ==
    CASE unitIndex = 1 -> RMul(standardDeviationValue, Rat(1000))
      [] unitIndex = 2 -> RDiv(standardDeviationValue, Norm(3281, 1000))
      [] unitIndex = 3 -> RDiv(standardDeviationValue, Norm(2237, 1000))
      [] unitIndex = 4 -> RDiv(standardDeviationValue, Norm(1944, 1000))
      [] OTHER -> standardDeviationValue

\* "Now convert from m/s to the newly selected unit."
ConvertFromMetersPerSecond(standardDeviationValue, unitIndex) ==
    CASE unitIndex = 1 -> RMul(standardDeviationValue, Rat(1000))
      [] unitIndex = 2 -> RDiv(standardDeviationValue, Norm(3281, 1000))
      [] unitIndex = 3 -> RDiv(standardDeviationValue, Norm(2237, 1000))
      [] unitIndex = 4 -> RDiv(standardDeviationValue, Norm(1944, 1000))
      [] OTHER -> standardDeviationValue

\* The listener: the input and the stored unit index it leaves.
StandardDeviationUnitChanged(input, currentIndex, selectValue) ==
    LET standardDeviationUnitIndex == SelectedUnitIndex(selectValue)
        standardDeviationMax == UnitMaximum(standardDeviationUnitIndex)
        standardDeviationValue == input.value
        newValue ==
            IF IsNaN(standardDeviationValue) THEN UnitDefault(standardDeviationUnitIndex)
            ELSE IF RGt(standardDeviationValue, standardDeviationMax)
                 THEN standardDeviationMax
            ELSE IF RLt(standardDeviationValue, Rat(0)) THEN Rat(0)
            ELSE ConvertFromMetersPerSecond(
                     ConvertToMetersPerSecond(standardDeviationValue, currentIndex),
                     standardDeviationUnitIndex)
    IN  [input |-> [value |-> newValue, max |-> standardDeviationMax],
         currentStandardDeviationUnitIndex |-> standardDeviationUnitIndex]

\* The numerator and denominator of a conversion's result stay within the
\* integers of the model: each conversion multiplies them by at most 3281.
Magnitude(value) == IF Abs(value.n) > value.d THEN Abs(value.n) ELSE value.d

ConversionSteps(fromIndex, toIndex) ==
    (IF fromIndex = 0 THEN 0 ELSE 1) + (IF toIndex = 0 THEN 0 ELSE 1)

ConversionFits(value, fromIndex, toIndex) ==
    Magnitude(value) <= MaxMagnitude \div (3281 ^ (ConversionSteps(fromIndex, toIndex) - 1))

\* The user selects another unit.
ChangeStandardDeviationUnit ==
    /\ \E selectValue \in UnitOptionValues :
         /\ SelectedUnitIndex(selectValue) # currentStandardDeviationUnitIndex
         /\ ConversionFits(standardDeviationInput.value,
                           currentStandardDeviationUnitIndex,
                           SelectedUnitIndex(selectValue))
         /\ \E after \in {StandardDeviationUnitChanged(standardDeviationInput,
                              currentStandardDeviationUnitIndex, selectValue)} :
              /\ standardDeviationInput' = after.input
              /\ currentStandardDeviationUnitIndex' =
                     after.currentStandardDeviationUnitIndex
    /\ UNCHANGED <<forecastVars, pageVars, launchVars>>

\* The user types another value; no listener runs.
EnterStandardDeviation ==
    /\ \E text \in DeviationTexts :
         /\ parseFloat(text) # standardDeviationInput.value
         /\ standardDeviationInput' =
                [standardDeviationInput EXCEPT !.value = parseFloat(text)]
    /\ UNCHANGED <<forecastVars, pageVars, launchVars,
                   currentStandardDeviationUnitIndex>>

InitUnits == Start(CallForecast, 1, DefaultCsvOptions)

NextUnits == ChangeStandardDeviationUnit \/ EnterStandardDeviation

SpecUnits == InitUnits /\ [][NextUnits]_vars

\* The value of the input lies within the range of the unit.
WithinUnitRange(value, unitIndex) ==
    /\ IsFinite(value)
    /\ RLe(Rat(0), value)
    /\ RLe(value, UnitMaximum(unitIndex))

\* Two finite numbers no more than a thousandth apart.
NearlyEqual(a, b) ==
    /\ IsFinite(a)
    /\ IsFinite(b)
    /\ LET difference == RSub(a, b)
       IN  Abs(difference.n) <= difference.d \div 1000

\* The input after the unit is changed to selectValue and then back to m/s.
ThereAndBack(selectValue) ==
    LET there == StandardDeviationUnitChanged(standardDeviationInput, 0, selectValue)
    IN  StandardDeviationUnitChanged(there.input, SelectedUnitIndex(selectValue),
                                     <<"0">>).input

\* C21: while the unit is m/s and the value is within its range, changing to
\* any other unit and back to m/s leaves the value it was, up to rounding.
C21_UnitRoundTrip ==
    (/\ currentStandardDeviationUnitIndex = 0
     /\ WithinUnitRange(standardDeviationInput.value, 0)
     /\ Magnitude(standardDeviationInput.value) <= MaxMagnitude \div 3281)
        => \A selectValue \in UnitOptionValues \ {<<"0">>} :
              NearlyEqual(ThereAndBack(selectValue).value, standardDeviationInput.value)

\* C26: every change of the unit leaves a value within [0, max] of the newly
\* selected unit in the input.
C26_ValueWithinNewUnitRange ==
    [][currentStandardDeviationUnitIndex' # currentStandardDeviationUnitIndex
          => WithinUnitRange(standardDeviationInput'.value,
                             currentStandardDeviationUnitIndex')]_vars

----------------------------------------------------------------------------
(* main.js: the buttons of the page and the forecast requests *)

\* Contents of the launch date input: today, 14 days ago, 16 days ahead, empty.
LaunchDateValues ==
    {<<"2", "0", "2", "6", "-", "0", "1", "-", "1", "5">>,
     <<"2", "0", "2", "6", "-", "0", "1", "-", "0", "1">>,
     <<"2", "0", "2", "6", "-", "0", "1", "-", "3", "1">>,
     <<>>}

LaunchTimeValues == {<<"1", "2", ":", "0", "0">>, <<"1", "3", ":", "0", "0">>, <<>>}

LatitudeValues == {<<>>, <<"3", "0", ".", "6">>, <<"9", "5">>}

LongitudeValues == {<<>>, <<"-", "9", "7", ".", "5">>}

LaunchInputValues ==
    [launchDate : LaunchDateValues, launchTime : LaunchTimeValues,
     latitude : LatitudeValues, longitude : LongitudeValues]

\* What ends a request: a body that parses to a forecast or to null, a
\* response whose ok is false, an error thrown by fetch or by json().
FetchOutcomes ==
    {[kind |-> "forecast"], [kind |-> "null"], [kind |-> "status", status |-> 500],
     [kind |-> "error", message |-> "Failed to fetch"]}

MathCeil(x) == Rat(-((-x.n) \div x.d))

\* (this.#launchDate - rightNow) / 3600000: the days of the launch date roll
\* over as those of Date do, so the difference is counted in days of the
\* month of rightNow.
HoursFromNow(launchTimes) ==
    RAdd(RMul(RSub(launchTimes.day, Rat(rightNow.day)), Rat(24)),
         RSub(launchTimes.startHour, Rat(rightNow.hour)))

startHourOffset(launchTimes) == MathCeil(HoursFromNow(launchTimes))

\* The elements and variables as one record.
Document ==
    [fetchWindForecastButton |-> fetchWindForecastButton,
     saveCsvFileButton |-> saveCsvFileButton,
     statusDisplay |-> statusDisplay,
     openMeteoWindJSON |-> openMeteoWindJSON,
     fetches |-> fetches]

\* Update the UI elements to reflect a new wind forecast is required.
askUserToRefreshWindForecast(document) ==
    IF document.fetchWindForecastButton.disabled
    THEN [document EXCEPT
             !.fetchWindForecastButton.disabled = FALSE,
             !.saveCsvFileButton.disabled = TRUE,
             !.statusDisplay =
                 <<"Please refresh the wind forecast when you are ready.">>]
    ELSE document

\* requestOpenMeteoWind up to "await fetch(fetchRequest)".  An exception of
\* the LaunchTimeData constructor leaves the function at once.  The request
\* is the inputs its URL is built from.
requestOpenMeteoWind(document, inputs) ==
    LET cleared == [document EXCEPT !.openMeteoWindJSON = <<>>]
        launchTimes == LaunchTimeData(inputs.launchDate, inputs.launchTime,
                                      inputs.launchTime)
    IN  IF launchTimes.threw THEN cleared
        ELSE IF RLt(startHourOffset(launchTimes.value[1]), Rat(-216))
        THEN [cleared EXCEPT
                 !.statusDisplay = <<"Wind speeds older than 9 days are not available.">>,
                 !.fetchWindForecastButton.disabled = FALSE]
        ELSE IF RGt(startHourOffset(launchTimes.value[1]), Rat(360))
        THEN [cleared EXCEPT
                 !.statusDisplay = <<"Cannot forecast more than 15 days into the future.">>,
                 !.fetchWindForecastButton.disabled = FALSE]
        ELSE IF getLaunchSiteLocation(inputs.latitude, inputs.longitude) = <<>>
        THEN [cleared EXCEPT
                 !.statusDisplay =
                     <<"Unable to get wind forecast without valid launch site coordinates.">>,
                 !.fetchWindForecastButton.disabled = FALSE]
        ELSE [cleared EXCEPT !.fetches = @ \cup {inputs}]

\* The click listener of the 'Get Wind Forecast' button.
FetchWindForecastClicked(document, inputs) ==
    requestOpenMeteoWind(
        [document EXCEPT
            !.statusDisplay = <<"Downloading the wind forecast...">>,
            !.fetchWindForecastButton.disabled = TRUE,
            !.saveCsvFileButton.disabled = TRUE],
        inputs)

\* requestOpenMeteoWind from the answer to its request on.  A forecast is
\* the request it answers.
OpenMeteoAnswered(document, request, outcome) ==
    LET answered == [document EXCEPT !.fetches = @ \ {request}]
    IN  CASE outcome.kind = "forecast" ->
               [answered EXCEPT
                   !.openMeteoWindJSON = <<[request |-> request]>>,
                   !.statusDisplay = <<"Ready to generate CSV file.">>,
                   !.saveCsvFileButton.disabled = FALSE]
          [] outcome.kind = "null" ->
               [answered EXCEPT
                   !.openMeteoWindJSON = <<>>,
                   !.statusDisplay = <<"The wind forecast was not available.">>,
                   !.fetchWindForecastButton.disabled = FALSE]
          [] outcome.kind = "status" ->
               [answered EXCEPT
                   !.statusDisplay = <<"Open-Meteo response status: ", outcome.status>>]
          [] outcome.kind = "error" ->
               [answered EXCEPT
                   !.statusDisplay = <<"Encounterd an error: ", outcome.message>>]

\* The user changes the date, the time, the latitude or the longitude: the
\* change listener of that input runs.
ChangeLaunchInput ==
    /\ \E changed \in LaunchInputValues :
         /\ Cardinality({field \in DOMAIN launchInputs :
                            changed[field] # launchInputs[field]}) = 1
         /\ launchInputs' = changed
    /\ \E after \in {askUserToRefreshWindForecast(Document)} :
         /\ fetchWindForecastButton' = after.fetchWindForecastButton
         /\ saveCsvFileButton' = after.saveCsvFileButton
         /\ statusDisplay' = after.statusDisplay
    /\ UNCHANGED <<forecastVars, unitVars, launchVars, openMeteoWindJSON, fetches>>

\* The user clicks 'Get Wind Forecast'; a disabled button takes no click.
ClickFetchWindForecast ==
    /\ ~fetchWindForecastButton.disabled
    /\ \E after \in {FetchWindForecastClicked(Document, launchInputs)} :
         /\ fetchWindForecastButton' = after.fetchWindForecastButton
         /\ saveCsvFileButton' = after.saveCsvFileButton
         /\ statusDisplay' = after.statusDisplay
         /\ openMeteoWindJSON' = after.openMeteoWindJSON
         /\ fetches' = after.fetches
    /\ UNCHANGED <<forecastVars, unitVars, launchVars, launchInputs>>

\* A request is answered and requestOpenMeteoWind runs to its end.
FetchCompletes ==
    /\ \E request \in fetches, outcome \in FetchOutcomes :
         \E after \in {OpenMeteoAnswered(Document, request, outcome)} :
           /\ fetchWindForecastButton' = after.fetchWindForecastButton
           /\ saveCsvFileButton' = after.saveCsvFileButton
           /\ statusDisplay' = after.statusDisplay
           /\ openMeteoWindJSON' = after.openMeteoWindJSON
           /\ fetches' = after.fetches
    /\ UNCHANGED <<forecastVars, unitVars, launchVars, launchInputs>>

InitPage == Start(CallForecast, 1, DefaultCsvOptions)

NextPage == ChangeLaunchInput \/ ClickFetchWindForecast \/ FetchCompletes

SpecPage == InitPage /\ [][NextPage]_vars

\* C22: at most one forecast request is in flight, and while one is the
\* 'Get Wind Forecast' button is disabled.
C22_OneRequestInFlight ==
    /\ Cardinality(fetches) <= 1
    /\ fetches # {} => fetchWindForecastButton.disabled

\* C23: while the 'Save CSV File' button is enabled, the forecast held was
\* requested for the date, time, latitude and longitude the inputs hold.
C23_SaveOnlyCurrentForecast ==
    (~saveCsvFileButton.disabled /\ openMeteoWindJSON # <<>>)
        => openMeteoWindJSON[1].request = launchInputs

\* C24: while the 'Save CSV File' button is enabled, openMeteoWindJSON holds
\* a forecast (it is not null).
C24_SaveEnabledHoldsForecast ==
    ~saveCsvFileButton.disabled => openMeteoWindJSON # <<>>

\* The status texts of a request that ended without a usable forecast.
UnusableStatus ==
    {"Wind speeds older than 9 days are not available.",
     "Cannot forecast more than 15 days into the future.",
     "Unable to get wind forecast without valid launch site coordinates.",
     "The wind forecast was not available.",
     "Open-Meteo response status: ",
     "Encounterd an error: "}

\* C25: when a request has ended without a usable forecast (the status line
\* says so), the 'Get Wind Forecast' button is enabled.
C25_RetryAfterFailure ==
    statusDisplay[1] \in UnusableStatus => ~fetchWindForecastButton.disabled

----------------------------------------------------------------------------
(* The ground wind loaded by loadWindsAloftData *)

\* C27: after loadWindsAloftData on a forecast that carries ground-level
\* fields, groundWindSpeed is the forecast's ground wind speed and
\* groundWindDirection is the forecast's ground wind direction.
C27_GroundWindFromItsFields ==
    (/\ call.op = "loadWindsAloftData"
     /\ ~call.result.threw
     /\ call.windJSON.groundSpd # <<>>
     /\ call.windJSON.groundDir # <<>>)
        => /\ call.result.forecast.groundWindSpeed = call.windJSON.groundSpd[1]
           /\ call.result.forecast.groundWindDirection = call.windJSON.groundDir[1]

----------------------------------------------------------------------------
(* launch.js: LaunchPathPoint and LaunchSimulationData *)
(* A GeoLocation object is its index in locations; a reference is <<>> for *)
(* null and <<index>> for an object.  locations[1] is the location the     *)
(* drift is accumulated in.                                                *)

MaxPath == 3

\* Altitudes (feet) handed to addLaunchPathPoint.
PathAltitudes == {NaN, Rat(-10), Rat(-5), Rat(100), Norm(501, 2)}

\* Where moveAlongBearing may leave a location: its trigonometry is left
\* open, and yields NaN for a distance or bearing that is not finite.
Destinations == {GeoLocation(Rat(31), Rat(-96)), GeoLocation(NaN, NaN)}

\* Math.round: the nearest integer, halves upwards.
MathRound(x) == IF IsFinite(x) THEN Rat((2 * x.n + x.d) \div (2 * x.d)) ELSE x

\* The constructor throws a TypeError for a NaN altitude and for null
\* coordinates, and so does the GeoLocation it constructs for a NaN coordinate.
LaunchPathPointThrows(alt, loc, objects) ==
    \/ IsNaN(alt)
    \/ loc = <<>>
    \/ GeoLocationThrows(objects[loc[1]].latitude, objects[loc[1]].longitude)

\* A LaunchPathPoint that keeps the reference it is handed.
LaunchPathPointSharing(alt, loc, objects) ==
    [point |-> [altitude |-> alt, location |-> loc[1]], locations |-> objects]

\* new LaunchPathPoint(alt, loc): the point and the objects with its own
\* new GeoLocation(loc.latitude, loc.longitude).
LaunchPathPoint(alt, loc, objects) ==
    [point |-> [altitude |-> alt, location |-> Len(objects) + 1],
     locations |-> Append(objects, GeoLocation(objects[loc[1]].latitude,
                                               objects[loc[1]].longitude))]

\* threw tells whether the call was left by the constructor's exception.
addLaunchPathPoint(path, objects, alt, launchPathPoint) ==
    IF launchPathPoint # <<>> /\ ~IsNaN(alt)
    THEN IF LaunchPathPointThrows(alt, launchPathPoint, objects)
         THEN [launchPath |-> path, locations |-> objects, threw |-> TRUE]
         ELSE LET made == LaunchPathPoint(alt, launchPathPoint, objects)
              IN  [launchPath |-> Append(path, made.point),
                   locations |-> made.locations, threw |-> FALSE]
    ELSE [launchPath |-> path, locations |-> objects, threw |-> FALSE]

\* getApogeeLocation that returns the location of the first lower point.
RECURSIVE getApogeeLocationAfterDecrease(_, _)
getApogeeLocationAfterDecrease(path, i) ==
    IF i > Len(path) THEN <<>>
    ELSE IF RLt(path[i].altitude, path[i - 1].altitude) THEN <<path[i].location>>
    ELSE getApogeeLocationAfterDecrease(path, i + 1)

\* The loop of getApogeeLocation from the 1-based index i (i = 2 is the
\* source's i = 1): the location where the rocket first starts moving
\* downward, null when it never does.
RECURSIVE getApogeeLocation(_, _)
getApogeeLocation(path, i) ==
    IF i > Len(path) THEN <<>>
    ELSE IF RLt(path[i].altitude, path[i - 1].altitude) THEN <<path[i - 1].location>>
    ELSE getApogeeLocation(path, i + 1)

\* The loop of getApogee: the largest altitude above the apogee so far.
RECURSIVE ApogeeLoop(_, _, _)
ApogeeLoop(path, i, apogee) ==
    IF i > Len(path) THEN apogee
    ELSE ApogeeLoop(path, i + 1,
                    IF RGt(path[i].altitude, apogee) THEN path[i].altitude ELSE apogee)

getApogee(path) == MathRound(ApogeeLoop(path, 1, Rat(0)))

\* The simulation constructs the location it lets the rocket drift in.
CreateRocketLocation ==
    /\ locations = <<>>
    /\ \E rocketLocation \in CallLocations : locations' = <<rocketLocation>>
    /\ UNCHANGED <<forecastVars, pageVars, unitVars, launchPath>>

\* moveAlongBearing(rocketLocation, ...), as driftWithWind calls it: the
\* coordinates of the object are overwritten.
MoveAlongBearing ==
    /\ Len(locations) > 0
    /\ \E destination \in Destinations :
         locations' = [locations EXCEPT ![1] = destination]
    /\ UNCHANGED <<forecastVars, pageVars, unitVars, launchPath>>

\* simulation.addLaunchPathPoint(alt, launchPathPoint) with null or the
\* rocket's location.
AddLaunchPathPoint ==
    /\ Len(launchPath) < MaxPath
    /\ \E alt \in PathAltitudes,
          launchPathPoint \in {<<>>} \cup {<<1>> : object \in DOMAIN locations} :
         \E after \in {addLaunchPathPoint(launchPath, locations, alt, launchPathPoint)} :
           /\ launchPath' = after.launchPath
           /\ locations' = after.locations
           /\ call' = [op |-> "addLaunchPathPoint", alt |-> alt,
                       launchPathPoint |-> launchPathPoint, threw |-> after.threw]
    /\ UNCHANGED <<windJSON, hourCount, csvOptions, pc, altitudeWinds, pressureWinds,
                   windList, groundWindSpeed, groundWindDirection, hourForecast,
                   windForecastList, stringArray, threw, pageVars, unitVars>>

GetApogeeLocation ==
    /\ call' = [op |-> "getApogeeLocation", result |-> getApogeeLocation(launchPath, 2)]
    /\ UNCHANGED <<windJSON, hourCount, csvOptions, pc, altitudeWinds, pressureWinds,
                   windList, groundWindSpeed, groundWindDirection, hourForecast,
                   windForecastList, stringArray, threw, pageVars, unitVars, launchVars>>

GetApogee ==
    /\ call' = [op |-> "getApogee", result |-> getApogee(launchPath)]
    /\ UNCHANGED <<windJSON, hourCount, csvOptions, pc, altitudeWinds, pressureWinds,
                   windList, groundWindSpeed, groundWindDirection, hourForecast,
                   windForecastList, stringArray, threw, pageVars, unitVars, launchVars>>

InitLaunch == Start(CallForecast, 1, DefaultCsvOptions)

NextLaunch ==
    \/ CreateRocketLocation
    \/ MoveAlongBearing
    \/ AddLaunchPathPoint
    \/ GetApogeeLocation
    \/ GetApogee

SpecLaunch == InitLaunch /\ [][NextLaunch]_vars

----------------------------------------------------------------------------
(* C28 *)

\* Every recorded point stays where it is in the path, with its altitude
\* and with the coordinates it has.
RecordedPointsKept ==
    \A i \in 1..Len(launchPath) :
        /\ i <= Len(launchPath')
        /\ launchPath'[i] = launchPath[i]
        /\ locations'[launchPath'[i].location] = locations[launchPath[i].location]

\* The step is a call of addLaunchPathPoint.
AddCalled ==
    /\ call'.op = "addLaunchPathPoint"
    /\ call' # call \/ launchPath' # launchPath

\* One point was appended, with the altitude passed and the coordinates the
\* passed location had when the call was made.
AppendedOne ==
    /\ Len(launchPath') = Len(launchPath) + 1
    /\ launchPath'[Len(launchPath')].altitude = call'.alt
    /\ locations'[launchPath'[Len(launchPath')].location]
           = locations[call'.launchPathPoint[1]]

----------------------------------------------------------------------------
(* C30 *)

\* Some point of the path is lower than the point before it.
HasDecrease ==
    \E i \in 2..Len(launchPath) :
        RLt(launchPath[i].altitude, launchPath[i - 1].altitude)

\* The first point that is lower than the point before it.
FirstDecrease ==
    CHOOSE i \in 2..Len(launchPath) :
        /\ RLt(launchPath[i].altitude, launchPath[i - 1].altitude)
        /\ \A j \in 2..(i - 1) : ~RLt(launchPath[j].altitude, launchPath[j - 1].altitude)

\* The altitudes do not decrease up to some point and do not increase after it.
RisesThenFalls ==
    \E peak \in 1..Len(launchPath) :
        /\ \A i \in 2..peak : RLe(launchPath[i - 1].altitude, launchPath[i].altitude)
        /\ \A i \in (peak + 1)..Len(launchPath) :
               RLe(launchPath[i].altitude, launchPath[i - 1].altitude)

MaxAltitude ==
    LET highest == CHOOSE i \in 1..Len(launchPath) :
                       \A j \in 1..Len(launchPath) :
                           RLe(launchPath[j].altitude, launchPath[i].altitude)
    IN  launchPath[highest].altitude

\* What getApogeeLocation returned is right for the path: null without a
\* decrease; on a path that rises and then falls, the location of the point
\* before the first decrease, whose altitude is the highest of the path.
ApogeeLocationRight ==
    call.op = "getApogeeLocation" =>
        IF HasDecrease
        THEN RisesThenFalls =>
                 /\ call.result = <<launchPath[FirstDecrease - 1].location>>
                 /\ launchPath[FirstDecrease - 1].altitude = MaxAltitude
        ELSE call.result = <<>>

============================================================================
